---- MODULE Spec2Model ----
(***************************************************************************)
(* State-machine model of the OpenPGM transport core                       *)
(* (openpgm/pgm/transport.c) and of the locked, rate regulated send        *)
(* wrapper (openpgm/pgm/net.c).                                            *)
(*                                                                         *)
(* One endpoint (pgm_transport_t) is modelled.  Threads call the public    *)
(* operations; an operation that takes a lock or reads shared state more   *)
(* than once is split at those points so that other threads interleave.    *)
(***************************************************************************)
EXTENDS Integers, Sequences, FiniteSets, TLC

VARIABLES
    transport,          \* the fields of pgm_transport_t
    mem,                \* endpoint memory: "none", "allocated", "freed"
    handle,             \* TRUE once create has stored *transport
    pgm_transport_list, \* the global list of endpoints, in order of creation
    lock_state,         \* per lock: "uninit", "init", "freed"
    held,               \* per thread: the locks it holds, in acquisition order
    sock_state,         \* per socket: "none", "open", "bound", "closed"
    recv_joined,        \* number of recv_gsr entries joined on recv_sock by bind
    txw_lead,           \* ((pgm_txw_t*)transport->window)->lead
    recv_gsr,           \* transport->recv_gsr[0 .. recv_gsr_len-1]
    sockopt,            \* group socket options: the last one and their number
    pc,                 \* per thread: position inside its current operation
    loc,                \* per thread: arguments and locals of the operation
    ret,                \* per thread: operation and value of its last return
    wire,               \* history of the run, read by the properties only
    binds,              \* history: number of bind calls made
    filedes             \* the file status flags of the two ends of a pipe

vars == << transport, mem, handle, pgm_transport_list, lock_state, held,
           sock_state, recv_joined, txw_lead, recv_gsr, sockopt, pc, loc,
           ret, wire, binds, filedes >>

-----------------------------------------------------------------------------
(* Bounds of the model *)

\* number of bind calls explored
MaxBinds == 2
\* fragments pushed by an APDU before its send would block
MaxFragments == 2

\* socket options a thread issues on the receive socket before
\* join_source_group is no longer called
MaxGroupCalls == 3

\* peers in peers_list when the endpoint is destroyed
MaxPeers == 2

Threads == {"app", "snd"}
\* the application thread that creates, binds and destroys the endpoint
Owner == "app"
\* the threads that send through the endpoint
Senders == Threads \ {Owner}

-----------------------------------------------------------------------------
(* Program constants *)

\* sizeof(struct pgm_ip) + sizeof(struct pgm_header)
MinTpdu == 36
\* sequence numbers are guint32, kept as two 16 bit halves [hi, lo] so that
\* the arithmetic wraps at 2^32
HalfModulus == 65536
IP_MAX_MEMBERSHIPS == 20

LockNames == {"mutex", "peers_lock", "window_lock", "send_mutex",
              "send_with_router_alert_mutex"}

SockNames == {"recv_sock", "send_sock", "send_with_router_alert_sock"}

\* position of each lock in the documented hierarchy
LockRank(l) ==
    CASE l = "mutex" -> 1
      [] l = "peers_lock" -> 2
      [] l = "window_lock" -> 3
      [] l = "send_mutex" -> 4
      [] l = "send_with_router_alert_mutex" -> 4

-----------------------------------------------------------------------------
(* Helpers on sequences and locks *)

Range(s) == { s[i] : i \in 1..Len(s) }

RECURSIVE Without(_, _)
Without(s, x) ==
    IF s = << >> THEN << >>
    ELSE IF Head(s) = x THEN Without(Tail(s), x)
    ELSE << Head(s) >> \o Without(Tail(s), x)

Holds(t, l) == l \in Range(held[t])

\* the endpoint the model follows, as an element of the global list
ThisTransport == "transport"

g_slist_append(list, x) == Append(list, x)

\* variant: the element stays in the list
g_slist_remove_absent(list, x) == list

\* g_slist_remove: the first element equal to x is taken out
RECURSIVE g_slist_remove(_, _)
g_slist_remove(list, x) ==
    IF list = << >> THEN << >>
    ELSE IF Head(list) = x THEN Tail(list)
    ELSE << Head(list) >> \o g_slist_remove(Tail(list), x)

\* transport.c 140-142 and 392-394: the list is updated between
\* g_static_rw_lock_writer_lock and _unlock of pgm_transport_list_lock
ListLockAtUpdate == "writer"

LockFree(l) == \A u \in Threads : ~Holds(u, l)

\* g_static_mutex_lock / g_static_rw_lock_writer_lock once the lock is free
Acquire(t, l) == [held EXCEPT ![t] = Append(@, l)]

\* g_static_mutex_unlock / g_static_rw_lock_writer_unlock: GLib keeps no owner
Release(h, l) == [u \in Threads |-> Without(h[u], l)]

NoLoc == [op |-> "none", arg |-> 0, ra |-> FALSE, dontwait |-> FALSE,
          sock |-> "none", sent |-> "none", attempts |-> 0,
          caller |-> "none", spm_n |-> 0, polled |-> "none",
          released |-> << >>, flush |-> FALSE]

NoRet == [op |-> "none", val |-> "none"]

Alive == mem = "allocated" /\ handle

\* history: spm = SPMs sent by the latest bind call; data = a sendto was made
\* on the regular send socket; on_closed = a sendto was made on a closed or
\* zeroed descriptor; on_freed = a send mutex was locked or unlocked after it
\* was freed; apdu, pre_lead = an APDU met EAGAIN, and the lead before it;
\* joined = the requests join_group accepted; last_join = the latest request;
\* src_joined = the requests join_source_group accepted; info = the
\* pgm_transport_info_t of the latest create call; hops = the multicast hop
\* limit the latest bind that got through its socket options gave the three
\* sockets, -1 before
NoHistory ==
    [spm |-> 0, data |-> FALSE, on_closed |-> FALSE, on_freed |-> FALSE,
     apdu |-> FALSE, pre_lead |-> [hi |-> 0, lo |-> 0],
     joined |-> {}, last_join |-> [gr_interface |-> 0, gr_group |-> "none"],
     src_joined |-> {},
     info |-> [ti_sport |-> 0, ti_dport |-> 0,
               ti_udp_encap_ucast_port |-> 0, ti_udp_encap_mcast_port |-> 0,
               ti_recv_addrs |-> << >>, ti_send_addrs |-> << >>],
     hops |-> -1, list_lock |-> "none", fcntl_failed |-> {},
     both_set |-> FALSE,
     epoll |-> [fd \in {"fd0", "recv_sock", "send_sock", "notify"} |-> {}]]


-----------------------------------------------------------------------------
(* The endpoint structure *)

\* g_malloc0 (sizeof(pgm_transport_t)): every field zero
ZeroTransport ==
    [ is_bound |-> FALSE, is_destroyed |-> FALSE, is_apdu_eagain |-> FALSE,
      can_send_data |-> FALSE, can_send_nak |-> FALSE, can_recv_data |-> FALSE,
      is_nonblocking |-> FALSE, use_multicast_loop |-> FALSE,
      is_abort_on_reset |-> FALSE, is_edge_triggered_recv |-> FALSE,
      max_tpdu |-> 0, hops |-> 0, sndbuf |-> 0, rcvbuf |-> 0,
      iphdr_len |-> 0, max_tsdu |-> 0, max_tsdu_fragment |-> 0,
      max_apdu |-> 0, txw_sqns |-> 0,
      txw_max_rte |-> 0,
      use_proactive_parity |-> FALSE, use_ondemand_parity |-> FALSE,
      use_varpkt_len |-> FALSE, rs_n |-> 0, rs_k |-> 0, rs_proactive_h |-> 0,
      first_sqn |-> [hi |-> 0, lo |-> 0],
      rand_ |-> FALSE, window |-> FALSE, peers_hashtable |-> FALSE,
      pending_notify |-> FALSE, rate_control |-> FALSE, rx_buffer |-> FALSE,
      recv_sock |-> FALSE, send_sock |-> FALSE,
      send_with_router_alert_sock |-> FALSE,
      tsi_sport |-> 0, dport |-> 0,
      udp_encap_ucast_port |-> 0, udp_encap_mcast_port |-> 0,
      send_gsr |-> [gsr_interface |-> 0, gsr_group |-> "none",
                    gsr_source |-> "none"] ]

Groups == {"G1", "G2"}
Interfaces == {0, 1, 2}

GroupSourceReq(i, g, s) ==
    [gsr_interface |-> i, gsr_group |-> g, gsr_source |-> s]

\* the receive list handed to create in the lifecycle specifications
DefaultRecvAddrs == << GroupSourceReq(0, "G1", "G1") >>

\* socket() results create can meet: every socket opens, or one of them fails
CreateFailures == {"none", "recv_sock", "send_sock",
                   "send_with_router_alert_sock"}

\* pipe(2): the read end is filedes[0] (O_RDONLY, which is 0), the write end
\* filedes[1]; no status flag is set
NewPipe == [i \in {0, 1} |-> IF i = 1 THEN {"O_WRONLY"} ELSE {}]

Init ==
    /\ transport = ZeroTransport
    /\ mem = "none"
    /\ handle = FALSE
    /\ pgm_transport_list = << >>
    /\ lock_state = [l \in LockNames |-> "uninit"]
    /\ held = [t \in Threads |-> << >>]
    /\ sock_state = [s \in SockNames |-> "none"]
    /\ recv_joined = 0
    /\ txw_lead = [hi |-> 0, lo |-> 0]
    /\ recv_gsr = << >>
    /\ sockopt = [name |-> "none", rc |-> 0, n |-> 0]
    /\ pc = [t \in Threads |-> "idle"]
    /\ loc = [t \in Threads |-> NoLoc]
    /\ ret = [t \in Threads |-> NoRet]
    /\ wire = NoHistory
    /\ binds = 0
    /\ filedes = NewPipe

-----------------------------------------------------------------------------
(* pgm_transport_create *)

\* the sockets create has opened before socket() number `fail` fails
OpenedBefore(fail) ==
    CASE fail = "none" -> SockNames
      [] fail = "recv_sock" -> {}
      [] fail = "send_sock" -> {"recv_sock"}
      [] fail = "send_with_router_alert_sock" -> {"recv_sock", "send_sock"}

\* sa_family of an address: "G6" and "S6" are IPv6 addresses, the other
\* groups and sources IPv4, and a zeroed address has no family
Inet6Addrs == {"G6", "S6"}

pgm_sockaddr_family(a) ==
    IF a = "none" THEN "AF_UNSPEC"
    ELSE IF a \in Inet6Addrs THEN "AF_INET6"
    ELSE "AF_INET"

\* g_htons on a little endian host: the two bytes of a 16 bit value swapped
Htons(x) == (x % 256) * 256 + (x \div 256)

TransportInfo(sport, dport, ucast, mcast, recv, send) ==
    [ti_sport |-> sport, ti_dport |-> dport,
     ti_udp_encap_ucast_port |-> ucast, ti_udp_encap_mcast_port |-> mcast,
     ti_recv_addrs |-> recv, ti_send_addrs |-> send]

\* transport.c 273-277: the port preconditions
CreatePortCheck(tinfo) ==
    /\ tinfo.ti_sport # 0 => tinfo.ti_sport # tinfo.ti_dport
    /\ IF tinfo.ti_udp_encap_ucast_port # 0
       THEN tinfo.ti_udp_encap_mcast_port # 0
       ELSE tinfo.ti_udp_encap_mcast_port # 0 =>
               tinfo.ti_udp_encap_ucast_port # 0

\* variant: the receive list has no upper limit
CreateLenCheck_no_limit(tinfo) ==
    /\ Len(tinfo.ti_recv_addrs) > 0
    /\ 1 = Len(tinfo.ti_send_addrs)

\* transport.c 278-282: the list lengths
CreateLenCheck(tinfo) ==
    /\ Len(tinfo.ti_recv_addrs) > 0
    /\ Len(tinfo.ti_recv_addrs) <= IP_MAX_MEMBERSHIPS
    /\ 1 = Len(tinfo.ti_send_addrs)

\* variant: the sources of the receive requests are not compared
CreateFamilyCheck_groups(tinfo) ==
    /\ \A i \in 1..Len(tinfo.ti_recv_addrs) :
          pgm_sockaddr_family(tinfo.ti_recv_addrs[i].gsr_group)
             = pgm_sockaddr_family(tinfo.ti_recv_addrs[1].gsr_group)
    /\ pgm_sockaddr_family(tinfo.ti_send_addrs[1].gsr_group)
          = pgm_sockaddr_family(tinfo.ti_send_addrs[1].gsr_source)

\* transport.c 283-288: every receive group has the family of the first
\* one and of its own source; the send group has the family of its source
CreateFamilyCheck(tinfo) ==
    /\ \A i \in 1..Len(tinfo.ti_recv_addrs) :
          /\ pgm_sockaddr_family(tinfo.ti_recv_addrs[i].gsr_group)
                = pgm_sockaddr_family(tinfo.ti_recv_addrs[1].gsr_group)
          /\ pgm_sockaddr_family(tinfo.ti_recv_addrs[i].gsr_group)
                = pgm_sockaddr_family(tinfo.ti_recv_addrs[i].gsr_source)
    /\ pgm_sockaddr_family(tinfo.ti_send_addrs[1].gsr_group)
          = pgm_sockaddr_family(tinfo.ti_send_addrs[1].gsr_source)

\* transport.c 271-288
CreateCheck(tinfo) ==
    IF ~CreatePortCheck(tinfo) THEN "FALSE"
    ELSE IF ~CreateLenCheck(tinfo) THEN "FALSE"
    ELSE IF ~CreateFamilyCheck(tinfo) THEN "FALSE"
    ELSE "ok"

\* variant: the two configuration flags are set as well
CreateDefaults_all ==
    [ZeroTransport EXCEPT
        !.can_send_data = TRUE,
        !.can_send_nak = TRUE,
        !.can_recv_data = TRUE,
        !.is_nonblocking = TRUE,
        !.use_multicast_loop = TRUE]

\* transport.c 290-293: the zeroed endpoint with its three capabilities
CreateDefaults ==
    [ZeroTransport EXCEPT
        !.can_send_data = TRUE,
        !.can_send_nak = TRUE,
        !.can_recv_data = TRUE]

\* values g_random_int_range (0, UINT16_MAX) can return: 0 .. 65534
RandomPorts == {0, 1, 256, 65534}

\* variant: the random source port is taken as drawn
CreateSportChoices_any(tinfo) ==
    IF tinfo.ti_sport # 0
    THEN { Htons(tinfo.ti_sport) }
    ELSE { Htons(r) : r \in RandomPorts }

\* transport.c 315-321: the source port given, or a random one drawn again
\* until it differs from the destination port
CreateSportChoices(tinfo) ==
    IF tinfo.ti_sport # 0
    THEN { Htons(tinfo.ti_sport) }
    ELSE { Htons(r) : r \in RandomPorts } \ { Htons(tinfo.ti_dport) }

\* transport.c 313-336: ports and addresses copied from tinfo
CreateNetwork(tr, tinfo, sport) ==
    [tr EXCEPT
        !.dport = Htons(tinfo.ti_dport),
        !.tsi_sport = sport,
        !.udp_encap_ucast_port = tinfo.ti_udp_encap_ucast_port,
        !.udp_encap_mcast_port = tinfo.ti_udp_encap_mcast_port,
        !.send_gsr = tinfo.ti_send_addrs[1]]

\* transport.c 262-422.  A precondition fails: FALSE is returned and nothing
\* was touched.  Else the endpoint is allocated, its five locks are
\* initialised, send_mutex is locked until bind, ports and addresses are
\* copied and the sockets are opened; then either the endpoint is handed to
\* the caller and appended to the global list, or (err_destroy, 397-421) a
\* socket() call failed: the sockets opened so far are closed, only the
\* timer mutex is freed, and the memory is released with send_mutex still
\* locked; *transport is not set.
Create(t, tinfo, fail, sport) ==
    /\ pc[t] = "idle"
    /\ mem = "none"
    /\ wire' = [wire EXCEPT
                 !.info = tinfo,
                 !.list_lock = IF CreateCheck(tinfo) = "ok" /\ fail = "none"
                               THEN ListLockAtUpdate ELSE @]
    /\ IF CreateCheck(tinfo) # "ok"
       THEN /\ ret' = [ret EXCEPT ![t] = [op |-> "create", val |-> "FALSE"]]
            /\ UNCHANGED << transport, mem, handle, pgm_transport_list,
                            lock_state, held, sock_state, recv_gsr >>
       ELSE /\ sport \in CreateSportChoices(tinfo)
            /\ recv_gsr' = tinfo.ti_recv_addrs
            /\ held' = Acquire(t, "send_mutex")
            /\ IF fail = "none"
               THEN /\ transport' =
                          [CreateNetwork(CreateDefaults, tinfo, sport) EXCEPT
                              !.recv_sock = TRUE,
                              !.send_sock = TRUE,
                              !.send_with_router_alert_sock = TRUE]
                    /\ mem' = "allocated"
                    /\ handle' = TRUE
                    /\ pgm_transport_list' =
                         g_slist_append(pgm_transport_list, ThisTransport)
                    /\ lock_state' = [l \in LockNames |-> "init"]
                    /\ sock_state' = [s \in SockNames |-> "open"]
                    /\ ret' = [ret EXCEPT ![t] =
                                 [op |-> "create", val |-> "TRUE"]]
               ELSE /\ transport' =
                          CreateNetwork(CreateDefaults, tinfo, sport)
                    /\ mem' = "freed"
                    /\ lock_state' = [l \in LockNames |->
                                        IF l = "mutex" THEN "freed"
                                        ELSE "init"]
                    /\ sock_state' = [s \in SockNames |->
                                        IF s \in OpenedBefore(fail)
                                        THEN "closed" ELSE "none"]
                    /\ ret' = [ret EXCEPT ![t] =
                                 [op |-> "create", val |-> "FALSE"]]
                    /\ UNCHANGED << handle, pgm_transport_list >>
    /\ UNCHANGED << recv_joined, txw_lead, sockopt, pc, loc, binds, filedes >>

\* the info of the lifecycle specifications: raw sockets, both ports given,
\* one IPv4 send request
DefaultInfo(addrs) ==
    TransportInfo(1, 7500, 0, 0, addrs, << GroupSourceReq(0, "G1", "S1") >>)

\* create succeeds on the receive list addrs
CreateOk(t, addrs) ==
    /\ CreateCheck(DefaultInfo(addrs)) = "ok"
    /\ Create(t, DefaultInfo(addrs), "none", Htons(1))

\* create on the receive list addrs meets the failing socket() call `fail`
CreateFail(t, addrs, fail) ==
    /\ CreateCheck(DefaultInfo(addrs)) = "ok"
    /\ fail # "none"
    /\ Create(t, DefaultInfo(addrs), fail, Htons(1))

-----------------------------------------------------------------------------
(* Configurators *)

\* g_return_val_if_fail chains: "ok" when the call goes on to lock the timer
\* mutex, else the value returned to the caller

\* transport.c 451-453
set_max_tpdu_check(tr, v) ==
    IF tr.is_bound THEN "FALSE"
    ELSE IF v < MinTpdu THEN "FALSE"
    ELSE "ok"

\* transport.c 473-474
set_multicast_loop_check(tr, v) ==
    IF tr.is_bound THEN "FALSE" ELSE "ok"

\* variant: set_hops without its is_bound precondition
set_hops_check_unbound(tr, v) ==
    IF ~(v > 0) THEN "FALSE"
    ELSE IF ~(v < 256) THEN "FALSE"
    ELSE "ok"

\* transport.c 493-496
set_hops_check(tr, v) ==
    IF tr.is_bound THEN "FALSE"
    ELSE IF ~(v > 0) THEN "FALSE"
    ELSE IF ~(v < 256) THEN "FALSE"
    ELSE "ok"

\* transport.c 517-529 and 550-562: env is what /proc/sys/net/core/?mem_max
\* gave: [fopen, mem_max]; a size above the maximum returns -EINVAL
set_sndbuf_check(tr, v, env) ==
    IF tr.is_bound THEN "FALSE"
    ELSE IF ~(v > 0) THEN "FALSE"
    ELSE IF env.fopen /\ ~(v <= env.mem_max) THEN "-EINVAL"
    ELSE "ok"

set_rcvbuf_check(tr, v, env) ==
    IF tr.is_bound THEN "FALSE"
    ELSE IF ~(v > 0) THEN "FALSE"
    ELSE IF env.fopen /\ ~(v <= env.mem_max) THEN "-EINVAL"
    ELSE "ok"

\* (k & (k - 1)) == 0 on a guint: k is 0 or a power of two
NoBitInCommonWithPredecessor(k) == k = 0 \/ \E i \in 0..30 : k = 2^i

\* variant: proactive_h is not compared with n - k
set_fec_check_any_h(tr, v) ==
    IF ~NoBitInCommonWithPredecessor(v.k) THEN "FALSE"
    ELSE IF ~(v.k >= 2 /\ v.k <= 128) THEN "FALSE"
    ELSE IF ~(v.n >= v.k + 1 /\ v.n <= 255) THEN "FALSE"
    ELSE "ok"

\* transport.c 1294-1309: the arguments are validated; is_bound is not read
set_fec_check(tr, v) ==
    IF ~NoBitInCommonWithPredecessor(v.k) THEN "FALSE"
    ELSE IF ~(v.k >= 2 /\ v.k <= 128) THEN "FALSE"
    ELSE IF ~(v.n >= v.k + 1 /\ v.n <= 255) THEN "FALSE"
    ELSE IF ~(v.h <= v.n - v.k) THEN "FALSE"
    ELSE IF v.k > 223 /\ ((v.n - v.k) * 223) < v.k THEN "FALSE"
    ELSE "ok"

\* transport.c 1334, 1353, 1373, 1389: only transport != NULL is required
set_flag_check(tr, v) == "ok"

CheckedSetters == {"max_tpdu", "multicast_loop", "hops", "sndbuf", "rcvbuf"}
UncheckedSetters == {"fec", "send_only", "recv_only", "nonblocking",
                     "abort_on_reset"}
Setters == CheckedSetters \cup UncheckedSetters

SetterCheck(name, tr, v, env) ==
    CASE name = "max_tpdu" -> set_max_tpdu_check(tr, v)
      [] name = "multicast_loop" -> set_multicast_loop_check(tr, v)
      [] name = "hops" -> set_hops_check(tr, v)
      [] name = "sndbuf" -> set_sndbuf_check(tr, v, env)
      [] name = "rcvbuf" -> set_rcvbuf_check(tr, v, env)
      [] name = "fec" -> set_fec_check(tr, v)
      [] OTHER -> set_flag_check(tr, v)

\* the assignments each configurator makes under the timer mutex
\* transport.c 456, 477, 499, 532, 565
set_max_tpdu_apply(tr, v) == [tr EXCEPT !.max_tpdu = v]
set_multicast_loop_apply(tr, v) == [tr EXCEPT !.use_multicast_loop = v]
set_hops_apply(tr, v) == [tr EXCEPT !.hops = v]
set_sndbuf_apply(tr, v) == [tr EXCEPT !.sndbuf = v]
set_rcvbuf_apply(tr, v) == [tr EXCEPT !.rcvbuf = v]

\* transport.c 1312-1317
set_fec_apply(tr, v) ==
    [tr EXCEPT !.use_proactive_parity = v.h > 0,
               !.use_ondemand_parity = v.ondemand,
               !.use_varpkt_len = v.varpkt,
               !.rs_n = v.n,
               !.rs_k = v.k,
               !.rs_proactive_h = v.h]

\* transport.c 1337
set_send_only_apply(tr, v) == [tr EXCEPT !.can_recv_data = ~v]

\* transport.c 1356-1357
set_recv_only_apply(tr, v) ==
    [tr EXCEPT !.can_send_data = FALSE, !.can_send_nak = ~v]

\* transport.c 1376
set_abort_on_reset_apply(tr, v) == [tr EXCEPT !.is_abort_on_reset = v]

\* transport.c 1392
set_nonblocking_apply(tr, v) == [tr EXCEPT !.is_nonblocking = v]

SetterApply(name, tr, v) ==
    CASE name = "max_tpdu" -> set_max_tpdu_apply(tr, v)
      [] name = "multicast_loop" -> set_multicast_loop_apply(tr, v)
      [] name = "hops" -> set_hops_apply(tr, v)
      [] name = "sndbuf" -> set_sndbuf_apply(tr, v)
      [] name = "rcvbuf" -> set_rcvbuf_apply(tr, v)
      [] name = "fec" -> set_fec_apply(tr, v)
      [] name = "send_only" -> set_send_only_apply(tr, v)
      [] name = "recv_only" -> set_recv_only_apply(tr, v)
      [] name = "nonblocking" -> set_nonblocking_apply(tr, v)
      [] name = "abort_on_reset" -> set_abort_on_reset_apply(tr, v)

FecArg(h, od, vp, n, k) ==
    [h |-> h, ondemand |-> od, varpkt |-> vp, n |-> n, k |-> k]

\* arguments tried for each configurator: accepted values and rejected ones
SetterArgs(name) ==
    CASE name = "max_tpdu" -> {35, 36, 1500}
      [] name = "hops" -> {0, 1, 255, 256}
      [] name \in {"sndbuf", "rcvbuf"} -> {0, 1, 2}
      [] name = "fec" -> { FecArg(2, TRUE, FALSE, 6, 4),
                           FecArg(0, FALSE, TRUE, 255, 128),
                           FecArg(0, TRUE, FALSE, 5, 3),
                           FecArg(3, TRUE, FALSE, 6, 4),
                           FecArg(0, TRUE, FALSE, 4, 4) }
      [] OTHER -> BOOLEAN

\* what reading ?mem_max can give: the file may not open
MemMaxEnvs == { [fopen |-> o, mem_max |-> m] : o \in BOOLEAN, m \in {1} }

\* the argument checks of a configurator (transport.c 451-453 and alike):
\* is_bound is read before the timer mutex is taken
SetterCall(t, name, v) ==
    /\ pc[t] = "idle"
    /\ Alive
    /\ ~transport.is_destroyed
    /\ \E env \in MemMaxEnvs :
         LET r == SetterCheck(name, transport, v, env) IN
         IF r = "ok"
         THEN /\ pc' = [pc EXCEPT ![t] = "s_lock"]
              /\ loc' = [loc EXCEPT ![t] =
                           [NoLoc EXCEPT !.op = name, !.arg = v]]
              /\ ret' = [ret EXCEPT ![t] = NoRet]
         ELSE /\ ret' = [ret EXCEPT ![t] = [op |-> name, val |-> r]]
              /\ UNCHANGED << pc, loc >>
    /\ UNCHANGED << transport, mem, handle, pgm_transport_list, lock_state,
                    held, sock_state, recv_joined, txw_lead, recv_gsr,
                    sockopt, wire, binds, filedes >>

\* g_static_mutex_lock (&transport->mutex)
SetterLock(t) ==
    /\ pc[t] = "s_lock"
    /\ LockFree("mutex")
    /\ held' = Acquire(t, "mutex")
    /\ pc' = [pc EXCEPT ![t] = "s_write"]
    /\ UNCHANGED << transport, mem, handle, pgm_transport_list, lock_state,
                    sock_state, recv_joined, txw_lead, recv_gsr, sockopt,
                    loc, ret, wire, binds, filedes >>

\* the assignment, g_static_mutex_unlock (&transport->mutex), return TRUE
SetterWrite(t) ==
    /\ pc[t] = "s_write"
    /\ transport' = SetterApply(loc[t].op, transport, loc[t].arg)
    /\ held' = Release(held, "mutex")
    /\ pc' = [pc EXCEPT ![t] = "idle"]
    /\ ret' = [ret EXCEPT ![t] = [op |-> loc[t].op, val |-> "TRUE"]]
    /\ loc' = [loc EXCEPT ![t] = NoLoc]
    /\ UNCHANGED << mem, handle, pgm_transport_list, lock_state, sock_state,
                    recv_joined, txw_lead, recv_gsr, sockopt, wire, binds,
                    filedes >>


-----------------------------------------------------------------------------
(* _pgm_sendto: locked and rate regulated sendto (net.c) *)

\* net.c 65
SelectMutex(use_router_alert) ==
    IF use_router_alert THEN "send_with_router_alert_mutex" ELSE "send_mutex"

\* net.c 66: the descriptor is read from the endpoint before the mutex is
\* taken; a field destroy has zeroed reads as descriptor 0
SelectSock(tr, use_router_alert) ==
    IF use_router_alert
    THEN (IF tr.send_with_router_alert_sock
          THEN "send_with_router_alert_sock" ELSE "fd0")
    ELSE (IF tr.send_sock THEN "send_sock" ELSE "fd0")

\* net.c 89 and 97: the descriptor waited on for writability
PollSock(tr, use_router_alert) ==
    IF tr.send_sock THEN "send_sock" ELSE "fd0"

SockUsable(s) == s \in SockNames /\ sock_state[s] \in {"open", "bound"}

SendErrnos == {"OK", "ENETUNREACH", "EHOSTUNREACH", "EAGAIN", "ENOBUFS"}

\* what sendto can answer on descriptor s
SendOutcomes(s) == IF SockUsable(s) THEN SendErrnos ELSE {"ENOBUFS"}

\* variant: would-block is waited for also under MSG_DONTWAIT
NeedsWait_dontwait(errno, dontwait) ==
    /\ errno # "OK"
    /\ errno # "ENETUNREACH"
    /\ errno # "EHOSTUNREACH"

\* net.c 80-84: the first sendto failed with an error that is worth a wait
NeedsWait(errno, dontwait) ==
    /\ errno # "OK"
    /\ errno # "ENETUNREACH"
    /\ errno # "EHOSTUNREACH"
    /\ ~(errno = "EAGAIN" /\ dontwait)

\* variant: the regulator is asked whatever use_rate_limit says
RateAnswers_always(use_rate_limit, dontwait) ==
    IF dontwait THEN {"ok", "EAGAIN"} ELSE {"ok"}

\* net.c 68-75: without use_rate_limit the regulator is not asked ("none");
\* asked, it may refuse a non-blocking send
RateAnswers(use_rate_limit, dontwait) ==
    IF ~use_rate_limit THEN {"none"}
    ELSE IF dontwait THEN {"ok", "EAGAIN"}
    ELSE {"ok"}

EmitterLocals(tr, ra, dontwait, caller, spm_n) ==
    [NoLoc EXCEPT !.op = "sendto", !.ra = ra, !.dontwait = dontwait,
                  !.sock = SelectSock(tr, ra), !.caller = caller,
                  !.spm_n = spm_n]

\* net.c 59-75 with the regulator's answer `rate`: a caller enters
\* _pgm_sendto; nothing checks is_destroyed
SendtoEnter(t, use_rate_limit, use_router_alert, dontwait, rate) ==
    /\ pc[t] = "idle"
    /\ handle
    /\ rate \in RateAnswers(use_rate_limit, dontwait)
    /\ IF rate = "EAGAIN"
       THEN /\ ret' = [ret EXCEPT ![t] = [op |-> "sendto", val |-> "EAGAIN"]]
            /\ UNCHANGED << pc, loc >>
       ELSE /\ pc' = [pc EXCEPT ![t] = "e_lock"]
            /\ loc' = [loc EXCEPT ![t] =
                         EmitterLocals(transport, use_router_alert,
                                       dontwait, "api", 0)]
            /\ ret' = [ret EXCEPT ![t] = NoRet]
    /\ UNCHANGED << transport, mem, handle, pgm_transport_list, lock_state,
                    held, sock_state, recv_joined, txw_lead, recv_gsr,
                    sockopt, wire, binds, filedes >>

\* net.c 59-75
SendtoCall(t, use_rate_limit, use_router_alert, dontwait) ==
    \E rate \in RateAnswers(use_rate_limit, dontwait) :
       SendtoEnter(t, use_rate_limit, use_router_alert, dontwait, rate)

\* net.c 77: g_static_mutex_lock (mutex)
SendtoLock(t) ==
    /\ pc[t] = "e_lock"
    /\ LockFree(SelectMutex(loc[t].ra))
    /\ held' = Acquire(t, SelectMutex(loc[t].ra))
    /\ pc' = [pc EXCEPT ![t] = "e_sendto"]
    /\ wire' = [wire EXCEPT !.on_freed =
                  @ \/ lock_state[SelectMutex(loc[t].ra)] = "freed"]
    /\ UNCHANGED << transport, mem, handle, pgm_transport_list, lock_state,
                    sock_state, recv_joined, txw_lead, recv_gsr, sockopt,
                    loc, ret, binds, filedes >>

\* the history of one sendto on descriptor s
Sent(w, s) ==
    [w EXCEPT !.data = @ \/ (s = "send_sock" /\ SockUsable(s)),
              !.on_closed = @ \/ ~SockUsable(s)]

\* net.c 79-84: the first sendto
SendtoFirst(t, errno) ==
    /\ pc[t] = "e_sendto"
    /\ errno \in SendOutcomes(loc[t].sock)
    /\ loc' = [loc EXCEPT ![t].sent = IF errno = "OK" THEN "ok" ELSE "fail",
                          ![t].attempts = 1]
    /\ pc' = [pc EXCEPT ![t] =
                IF NeedsWait(errno, loc[t].dontwait) THEN "e_poll"
                ELSE "e_unlock"]
    /\ wire' = Sent(wire, loc[t].sock)
    /\ UNCHANGED << transport, mem, handle, pgm_transport_list, lock_state,
                    held, sock_state, recv_joined, txw_lead, recv_gsr,
                    sockopt, ret, binds, filedes >>

PollAnswers == {"ready", "timeout", "error"}

\* net.c 86-104 and 115-126: one wait of 500 ms for writability
SendtoPoll(t, ready) ==
    /\ pc[t] = "e_poll"
    /\ pc' = [pc EXCEPT ![t] = IF ready = "ready" THEN "e_retry"
                               ELSE "e_unlock"]
    /\ loc' = [loc EXCEPT ![t].polled = PollSock(transport, loc[t].ra)]
    /\ UNCHANGED << transport, mem, handle, pgm_transport_list, lock_state,
                    held, sock_state, recv_joined, txw_lead, recv_gsr,
                    sockopt, ret, wire, binds, filedes >>

\* variant: a failed second sendto waits and tries again
SendtoRetry_until_sent(t, errno) ==
    /\ pc[t] = "e_retry"
    /\ errno \in SendOutcomes(loc[t].sock)
    /\ loc' = [loc EXCEPT ![t].sent = IF errno = "OK" THEN "ok" ELSE "fail",
                          ![t].attempts = 2]
    /\ pc' = [pc EXCEPT ![t] = IF errno = "OK" THEN "e_unlock" ELSE "e_poll"]
    /\ wire' = Sent(wire, loc[t].sock)
    /\ UNCHANGED << transport, mem, handle, pgm_transport_list, lock_state,
                    held, sock_state, recv_joined, txw_lead, recv_gsr,
                    sockopt, ret, binds, filedes >>

\* net.c 106-113: the second sendto
SendtoRetry(t, errno) ==
    /\ pc[t] = "e_retry"
    /\ errno \in SendOutcomes(loc[t].sock)
    /\ loc' = [loc EXCEPT ![t].sent = IF errno = "OK" THEN "ok" ELSE "fail",
                          ![t].attempts = 2]
    /\ pc' = [pc EXCEPT ![t] = "e_unlock"]
    /\ wire' = Sent(wire, loc[t].sock)
    /\ UNCHANGED << transport, mem, handle, pgm_transport_list, lock_state,
                    held, sock_state, recv_joined, txw_lead, recv_gsr,
                    sockopt, ret, binds, filedes >>

\* net.c 129-131: g_static_mutex_unlock (mutex); return sent.  A call made by
\* bind for an SPM returns into bind.
SendtoUnlock(t) ==
    /\ pc[t] = "e_unlock"
    /\ held' = Release(held, SelectMutex(loc[t].ra))
    /\ wire' = [wire EXCEPT !.on_freed =
                  @ \/ lock_state[SelectMutex(loc[t].ra)] = "freed"]
    /\ IF loc[t].caller = "bind"
       THEN /\ pc' = [pc EXCEPT ![t] = "b_spm_ret"]
            /\ UNCHANGED << loc, ret >>
       ELSE /\ pc' = [pc EXCEPT ![t] = "idle"]
            /\ ret' = [ret EXCEPT ![t] = [op |-> "sendto",
                                          val |-> loc[t].sent]]
            /\ loc' = [loc EXCEPT ![t] = NoLoc]
    /\ UNCHANGED << transport, mem, handle, pgm_transport_list, lock_state,
                    sock_state, recv_joined, txw_lead, recv_gsr, sockopt,
                    binds, filedes >>


-----------------------------------------------------------------------------
(* pgm_transport_bind *)

\* the calls of bind that can fail before the SPMs, in program order:
\*   notify     pgm_notify_init                          (transport.c 593)
\*   sockopt    SO_REUSEADDR, pktinfo, hdrincl, buffers  (636-724)
\*   bind_recv  _pgm_indextoaddr, bind (recv_sock)       (747-777)
\*   bind_send  pgm_if_indextoaddr, bind (send_sock),
\*              pgm_if_getnodeaddr                       (791-838)
\*   bind_ra    bind (send_with_router_alert_sock)       (848-865)
\*   join       MCAST_JOIN_GROUP / MCAST_JOIN_SOURCE_GROUP per entry (879-922)
\*   mcast      multicast_if, multicast_loop, multicast_hops (939-1027)
BindFailPoints == {"notify", "sockopt", "bind_recv", "bind_send", "bind_ra",
                   "join", "mcast"}

StageRank(f) ==
    CASE f = "notify" -> 1
      [] f = "sockopt" -> 2
      [] f = "bind_recv" -> 3
      [] f = "bind_send" -> 4
      [] f = "bind_ra" -> 5
      [] f = "join" -> 6
      [] f = "mcast" -> 7
      [] f = "none" -> 8

\* a failure the environment can produce at this call of bind: the notify
\* channel is only created for a receiver, and bind () on a socket that an
\* earlier call has bound fails
BindOutcomePossible(tr, socks, f) ==
    /\ (f = "notify" => tr.can_recv_data)
    /\ (StageRank(f) > 3 => socks["recv_sock"] = "open")
    /\ (StageRank(f) > 4 => socks["send_sock"] = "open")
    /\ (StageRank(f) > 5 => socks["send_with_router_alert_sock"] = "open")

\* sizes of the packet structures named in transport.c 112-118, 453, 605, 609
SizeofPgmIp == 20
SizeofPgmIp6Hdr == 40
SizeofPgmUdphdr == 8
SizeofPgmHeader == 16
SizeofPgmData == 8
SizeofPgmOptLength == 4
SizeofPgmOptHeader == 3
SizeofPgmOptFragment == 13

\* the most fragments an APDU is cut into
PGM_MAX_FRAGMENTS == 16

\* transport.c 108-119
pgm_transport_pkt_offset(can_fragment) ==
    IF can_fragment
    THEN SizeofPgmHeader + SizeofPgmData + SizeofPgmOptLength
         + SizeofPgmOptHeader + SizeofPgmOptFragment
    ELSE SizeofPgmHeader + SizeofPgmData

\* transport.c 605-612
BindIphdrLen(tr) ==
    (IF pgm_sockaddr_family(tr.send_gsr.gsr_group) = "AF_INET"
     THEN SizeofPgmIp ELSE SizeofPgmIp6Hdr)
    + (IF tr.udp_encap_ucast_port # 0 THEN SizeofPgmUdphdr ELSE 0)

\* assignment to a guint16 field: the value modulo 2^16
StoreGuint16(x) == x % 65536

Min(a, b) == IF a < b THEN a ELSE b

\* transport.c 605-616: the sizes bind derives from max_tpdu
BindSizes(tr) ==
    LET len == BindIphdrLen(tr)
        frag == StoreGuint16(tr.max_tpdu - len
                             - pgm_transport_pkt_offset(TRUE))
    IN  [tr EXCEPT
           !.iphdr_len = len,
           !.max_tsdu = StoreGuint16(tr.max_tpdu - len
                                     - pgm_transport_pkt_offset(FALSE)),
           !.max_tsdu_fragment = frag,
           !.max_apdu = Min(PGM_MAX_FRAGMENTS, tr.txw_sqns) * frag]

\* transport.c 589-630: what bind has allocated when it reaches stage f
BindAllocations(tr, f) ==
    [(IF StageRank(f) > 1 THEN BindSizes(tr) ELSE tr) EXCEPT
               !.rand_ = TRUE,
               !.pending_notify = @ \/ (tr.can_recv_data /\ StageRank(f) > 1),
               !.window = @ \/ (tr.can_send_data /\ StageRank(f) > 1),
               !.peers_hashtable =
                   @ \/ (tr.can_recv_data /\ StageRank(f) > 1)]

\* transport.c 1009-1017: the hop limit handed to
\* pgm_sockaddr_multicast_hops for each socket
BindHops(tr) == tr.hops

\* transport.c 762, 808, 848: the sockets bound when bind reaches stage f
BindSockets(socks, f) ==
    [s \in SockNames |->
        IF \/ (s = "recv_sock" /\ StageRank(f) > 3)
           \/ (s = "send_sock" /\ StageRank(f) > 4)
           \/ (s = "send_with_router_alert_sock" /\ StageRank(f) > 5)
        THEN "bound" ELSE socks[s]]

\* transport.c 582-583
BindCall(t) ==
    /\ pc[t] = "idle"
    /\ Alive
    /\ ~transport.is_destroyed
    /\ binds < MaxBinds
    /\ binds' = binds + 1
    /\ IF transport.is_bound
       THEN /\ ret' = [ret EXCEPT ![t] = [op |-> "bind", val |-> "FALSE"]]
            /\ UNCHANGED << pc, loc, wire >>
       ELSE /\ pc' = [pc EXCEPT ![t] = "b_lock"]
            /\ loc' = [loc EXCEPT ![t] = [NoLoc EXCEPT !.op = "bind"]]
            /\ ret' = [ret EXCEPT ![t] = NoRet]
            /\ wire' = [wire EXCEPT !.spm = 0]
    /\ UNCHANGED << transport, mem, handle, pgm_transport_list, lock_state,
                    held, sock_state, recv_joined, txw_lead, recv_gsr,
                    sockopt, filedes >>

\* transport.c 588
BindLock(t) ==
    /\ pc[t] = "b_lock"
    /\ LockFree("mutex")
    /\ held' = Acquire(t, "mutex")
    /\ pc' = [pc EXCEPT ![t] = "b_setup"]
    /\ UNCHANGED << transport, mem, handle, pgm_transport_list, lock_state,
                    sock_state, recv_joined, txw_lead, recv_gsr, sockopt,
                    loc, ret, wire, binds, filedes >>

\* variant: a failure exit of bind that also unlocks send_mutex
BindFailExit_unlocks_send(t) ==
    /\ held' = Release(Release(held, "mutex"), "send_mutex")
    /\ pc' = [pc EXCEPT ![t] = "idle"]
    /\ ret' = [ret EXCEPT ![t] = [op |-> "bind", val |-> "FALSE"]]
    /\ loc' = [loc EXCEPT ![t] = NoLoc]

\* transport.c 1066-1072 and every earlier failure exit: the timer mutex is
\* unlocked and FALSE returned; nothing acquired so far is released
BindFailExit(t) ==
    /\ held' = Release(held, "mutex")
    /\ pc' = [pc EXCEPT ![t] = "idle"]
    /\ ret' = [ret EXCEPT ![t] = [op |-> "bind", val |-> "FALSE"]]
    /\ loc' = [loc EXCEPT ![t] = NoLoc]

\* transport.c 589-1059: everything bind does under the timer mutex before
\* the SPMs.  f is the call that fails ("none": all succeed); j is the number
\* of groups joined when the join loop fails.  lead0 is the lead a new window
\* starts with.
BindSetup(t, f, j, lead0) ==
    /\ pc[t] = "b_setup"
    /\ BindOutcomePossible(transport, sock_state, f)
    /\ j \in 0..(Len(recv_gsr) - 1)
    /\ transport' = BindAllocations(transport, f)
    /\ sock_state' = BindSockets(sock_state, f)
    /\ recv_joined' = IF StageRank(f) > 6 THEN Len(recv_gsr)
                      ELSE IF f = "join" THEN j ELSE recv_joined
    /\ txw_lead' = IF transport.can_send_data /\ StageRank(f) > 1
                   THEN lead0 ELSE txw_lead
    /\ IF f # "none"
       THEN BindFailExit(t)
       ELSE /\ pc' = [pc EXCEPT ![t] =
                        IF transport.can_send_data THEN "b_spm"
                        ELSE IF transport.can_recv_data THEN "b_finish"
                        ELSE "aborted"]
            /\ UNCHANGED << held, loc, ret >>
    /\ wire' = [wire EXCEPT !.hops = IF f = "none" THEN BindHops(transport)
                                     ELSE @]
    /\ UNCHANGED << mem, handle, pgm_transport_list, lock_state, recv_gsr,
                    sockopt, binds, filedes >>

\* pgm_send_spm_unlocked as bind uses it (transport.c 1062-1064): one SPM is
\* handed to _pgm_sendto, rate limited and on the router alert socket
BindSpm(t) ==
    /\ pc[t] = "b_spm"
    /\ pc' = [pc EXCEPT ![t] = "e_lock"]
    /\ loc' = [loc EXCEPT ![t] =
                 EmitterLocals(transport, TRUE, FALSE, "bind", loc[t].spm_n)]
    /\ UNCHANGED << transport, mem, handle, pgm_transport_list, lock_state,
                    held, sock_state, recv_joined, txw_lead, recv_gsr,
                    sockopt, ret, wire, binds, filedes >>

\* the SPMs bind announces the session with
SpmAnnounceCount == 3

\* variant: a chain of two SPM sends
SpmChainDone_short(n) == n = SpmAnnounceCount - 1

\* the || chain of transport.c 1062-1064 is through after its third send
SpmChainDone(n) == n = SpmAnnounceCount

\* transport.c 1062-1073: the || chain over three SPM sends
BindSpmRet(t) ==
    /\ pc[t] = "b_spm_ret"
    /\ IF loc[t].sent = "ok"
       THEN /\ loc' = [loc EXCEPT ![t] =
                         [NoLoc EXCEPT !.op = "bind",
                                       !.spm_n = loc[t].spm_n + 1]]
            /\ wire' = [wire EXCEPT !.spm = @ + 1]
            /\ pc' = [pc EXCEPT ![t] =
                        IF SpmChainDone(loc[t].spm_n + 1)
                        THEN "b_finish" ELSE "b_spm"]
            /\ UNCHANGED << held, ret >>
       ELSE /\ BindFailExit(t)
            /\ UNCHANGED wire
    /\ UNCHANGED << transport, mem, handle, pgm_transport_list, lock_state,
                    sock_state, recv_joined, txw_lead, recv_gsr, sockopt,
                    binds, filedes >>

\* transport.c 1075-1094: timers, non-blocking mode, first receive buffer,
\* is_bound = TRUE
BindFinish(t) ==
    /\ pc[t] = "b_finish"
    /\ transport' = [transport EXCEPT !.rx_buffer = TRUE, !.is_bound = TRUE]
    /\ pc' = [pc EXCEPT ![t] = "b_unlock_send"]
    /\ UNCHANGED << mem, handle, pgm_transport_list, lock_state, held,
                    sock_state, recv_joined, txw_lead, recv_gsr, sockopt,
                    loc, ret, wire, binds, filedes >>

\* transport.c 1095
BindUnlockSend(t) ==
    /\ pc[t] = "b_unlock_send"
    /\ held' = Release(held, "send_mutex")
    /\ pc' = [pc EXCEPT ![t] = "b_unlock"]
    /\ UNCHANGED << transport, mem, handle, pgm_transport_list, lock_state,
                    sock_state, recv_joined, txw_lead, recv_gsr, sockopt,
                    loc, ret, wire, binds, filedes >>

\* transport.c 1096-1102
BindUnlock(t) ==
    /\ pc[t] = "b_unlock"
    /\ held' = Release(held, "mutex")
    /\ pc' = [pc EXCEPT ![t] = "idle"]
    /\ ret' = [ret EXCEPT ![t] = [op |-> "bind", val |-> "TRUE"]]
    /\ loc' = [loc EXCEPT ![t] = NoLoc]
    /\ UNCHANGED << transport, mem, handle, pgm_transport_list, lock_state,
                    sock_state, recv_joined, txw_lead, recv_gsr, sockopt,
                    wire, binds, filedes >>


-----------------------------------------------------------------------------
(* Sending an APDU in non-blocking mode: the state destroy rolls back *)

\* s + n on a guint32, for 0 <= n < 2^16
SqnAdd(s, n) ==
    [hi |-> (s.hi + ((s.lo + n) \div HalfModulus)) % HalfModulus,
     lo |-> (s.lo + n) % HalfModulus]

\* s - 1 on a guint32
SqnPred(s) ==
    IF s.lo = 0
    THEN [hi |-> (s.hi + HalfModulus - 1) % HalfModulus,
          lo |-> HalfModulus - 1]
    ELSE [hi |-> s.hi, lo |-> s.lo - 1]

\* the lead of a new window where sequence numbers play no part
FirstLead == { [hi |-> 0, lo |-> 0] }

\* the lead of a new window is initial_sqn - 1: 0, 2^16 - 1 and 2^32 - 1
InitialLeads == { [hi |-> 0, lo |-> 0],
                  [hi |-> 0, lo |-> HalfModulus - 1],
                  [hi |-> HalfModulus - 1, lo |-> HalfModulus - 1] }

\* A send of an APDU of several fragments takes the window writer lock, saves
\* pkt_dontwait_state.first_sqn, pushes m fragments and then meets EAGAIN: it
\* returns with is_apdu_eagain set and the writer lock still held.
ApduEagain(t, m) ==
    /\ pc[t] = "idle"
    /\ Alive
    /\ transport.is_bound
    /\ ~transport.is_destroyed
    /\ transport.window
    /\ ~transport.is_apdu_eagain
    /\ lock_state["window_lock"] = "init"
    /\ LockFree("window_lock")
    /\ m \in 1..MaxFragments
    /\ held' = Acquire(t, "window_lock")
    /\ transport' = [transport EXCEPT
                        !.first_sqn = SqnAdd(txw_lead, 1),
                        !.is_apdu_eagain = TRUE]
    /\ txw_lead' = SqnAdd(txw_lead, m)
    /\ ret' = [ret EXCEPT ![t] = [op |-> "send", val |-> "EAGAIN"]]
    /\ wire' = [wire EXCEPT !.apdu = TRUE, !.pre_lead = txw_lead]
    /\ UNCHANGED << mem, handle, pgm_transport_list, lock_state, sock_state,
                    recv_joined, recv_gsr, sockopt, pc, loc, binds, filedes >>

-----------------------------------------------------------------------------
(* pgm_transport_destroy *)

\* variant: the lead set to first_sqn itself
RollbackLead_first(first_sqn) == first_sqn

\* transport.c 149: lead = pkt_dontwait_state.first_sqn - 1 on a guint32
RollbackLead(first_sqn) == SqnPred(first_sqn)

\* transport.c 157 and 224: the send mutexes are taken only when bound
DestroyTakesSendLocks(tr) == tr.is_bound

\* transport.c 138-144: the endpoint leaves the global list under the list
\* writer lock and is marked destroyed
DestroyCall(t, flush) ==
    /\ pc[t] = "idle"
    /\ Alive
    /\ ~transport.is_destroyed
    /\ pgm_transport_list' = g_slist_remove(pgm_transport_list, ThisTransport)
    /\ wire' = [wire EXCEPT !.list_lock = ListLockAtUpdate]
    /\ transport' = [transport EXCEPT !.is_destroyed = TRUE]
    /\ pc' = [pc EXCEPT ![t] = "d_rollback"]
    /\ loc' = [loc EXCEPT ![t] = [NoLoc EXCEPT !.op = "destroy",
                                               !.flush = flush]]
    /\ ret' = [ret EXCEPT ![t] = NoRet]
    /\ UNCHANGED << mem, handle, lock_state, held, sock_state, recv_joined,
                    txw_lead, recv_gsr, sockopt, binds, filedes >>

\* transport.c 147-152: roll back an APDU left unfinished by EAGAIN
DestroyRollback(t) ==
    /\ pc[t] = "d_rollback"
    /\ IF transport.is_apdu_eagain
       THEN /\ txw_lead' = RollbackLead(transport.first_sqn)
            /\ held' = Release(held, "window_lock")
            /\ transport' = [transport EXCEPT !.is_apdu_eagain = FALSE]
       ELSE UNCHANGED << txw_lead, held, transport >>
    /\ pc' = [pc EXCEPT ![t] = "d_lock"]
    /\ UNCHANGED << mem, handle, pgm_transport_list, lock_state, sock_state,
                    recv_joined, recv_gsr, sockopt, loc, ret, wire, binds,
                    filedes >>

\* transport.c 154-157
DestroyLock(t) ==
    /\ pc[t] = "d_lock"
    /\ LockFree("mutex")
    /\ held' = Acquire(t, "mutex")
    /\ pc' = [pc EXCEPT ![t] = IF DestroyTakesSendLocks(transport)
                               THEN "d_lock_send" ELSE "d_teardown"]
    /\ UNCHANGED << transport, mem, handle, pgm_transport_list, lock_state,
                    sock_state, recv_joined, txw_lead, recv_gsr, sockopt,
                    loc, ret, wire, binds, filedes >>

\* transport.c 158
DestroyLockSend(t) ==
    /\ pc[t] = "d_lock_send"
    /\ LockFree("send_mutex")
    /\ held' = Acquire(t, "send_mutex")
    /\ pc' = [pc EXCEPT ![t] = "d_lock_ra"]
    /\ UNCHANGED << transport, mem, handle, pgm_transport_list, lock_state,
                    sock_state, recv_joined, txw_lead, recv_gsr, sockopt,
                    loc, ret, wire, binds, filedes >>

\* transport.c 159
DestroyLockRa(t) ==
    /\ pc[t] = "d_lock_ra"
    /\ LockFree("send_with_router_alert_mutex")
    /\ held' = Acquire(t, "send_with_router_alert_mutex")
    /\ pc' = [pc EXCEPT ![t] = "d_teardown"]
    /\ UNCHANGED << transport, mem, handle, pgm_transport_list, lock_state,
                    sock_state, recv_joined, txw_lead, recv_gsr, sockopt,
                    loc, ret, wire, binds, filedes >>

\* the peers the receive path can have put in peers_list when destroy runs
PeerCounts(tr) == IF tr.peers_hashtable THEN 0..MaxPeers ELSE {0}

\* transport.c 170-179: the peers of the list, first to last
PeerNames(n) == SubSeq(<< "peer1", "peer2", "peer3" >>, 1, n)

\* the parts of an endpoint destroy releases, in the order of
\* transport.c 166-219
TeardownParts ==
    << "peers_hashtable", "window", "rate_control", "recv_sock", "send_sock",
       "send_with_router_alert_sock", "rand_", "pending_notify" >>

\* variant: the transmit window is shut down before the peers are dropped
TeardownOrder_window_first(tr, n) ==
    SelectSeq(<< "window", "peers_hashtable" >>, LAMBDA p : tr[p])
    \o PeerNames(n)
    \o SelectSeq(SubSeq(TeardownParts, 3, Len(TeardownParts)),
                 LAMBDA p : tr[p])
    \o << "peers_lock", "window_lock" >>

\* transport.c 166-222: what destroy releases of an endpoint with n peers:
\* each part that exists, the peers after the hashtable, then the two
\* reader/writer locks
TeardownOrder(tr, n) ==
    SelectSeq(<< "peers_hashtable" >>, LAMBDA p : tr[p])
    \o PeerNames(n)
    \o SelectSeq(Tail(TeardownParts), LAMBDA p : tr[p])
    \o << "peers_lock", "window_lock" >>

\* variant: flushing sends one heartbeat SPM
DestroyFlush_heartbeat(flush, w) ==
    IF flush THEN [w EXCEPT !.spm = @ + 1] ELSE w

\* transport.c 162-164: what the flush branch puts on the wire; its body is
\* empty
DestroyFlush(flush, w) ==
    IF flush THEN w ELSE w

\* transport.c 162-222: the flush branch, then peers, transmit window, rate
\* regulator, the three sockets, heartbeat intervals, random generator and
\* notify channel are released, then the two reader/writer locks are freed
DestroyTeardown(t, n) ==
    /\ pc[t] = "d_teardown"
    /\ transport' = [transport EXCEPT
                        !.peers_hashtable = FALSE,
                        !.window = FALSE,
                        !.rate_control = FALSE,
                        !.recv_sock = FALSE,
                        !.send_sock = FALSE,
                        !.send_with_router_alert_sock = FALSE,
                        !.rand_ = FALSE,
                        !.pending_notify = FALSE]
    /\ sock_state' = [s \in SockNames |->
                        IF transport[s] THEN "closed" ELSE sock_state[s]]
    /\ lock_state' = [lock_state EXCEPT !["peers_lock"] = "freed",
                                        !["window_lock"] = "freed"]
    /\ held' = Release(Release(held, "peers_lock"), "window_lock")
    /\ pc' = [pc EXCEPT ![t] = IF DestroyTakesSendLocks(transport)
                               THEN "d_unlock_send" ELSE "d_free_send"]
    /\ n \in PeerCounts(transport)
    /\ loc' = [loc EXCEPT ![t].released = @ \o TeardownOrder(transport, n)]
    /\ wire' = DestroyFlush(loc[t].flush, wire)
    /\ UNCHANGED << mem, handle, pgm_transport_list, recv_joined, txw_lead,
                    recv_gsr, sockopt, ret, binds, filedes >>

\* transport.c 225
DestroyUnlockSend(t) ==
    /\ pc[t] = "d_unlock_send"
    /\ held' = Release(held, "send_mutex")
    /\ pc' = [pc EXCEPT ![t] = "d_unlock_ra"]
    /\ UNCHANGED << transport, mem, handle, pgm_transport_list, lock_state,
                    sock_state, recv_joined, txw_lead, recv_gsr, sockopt,
                    loc, ret, wire, binds, filedes >>

\* transport.c 226
DestroyUnlockRa(t) ==
    /\ pc[t] = "d_unlock_ra"
    /\ held' = Release(held, "send_with_router_alert_mutex")
    /\ pc' = [pc EXCEPT ![t] = "d_free_send"]
    /\ UNCHANGED << transport, mem, handle, pgm_transport_list, lock_state,
                    sock_state, recv_joined, txw_lead, recv_gsr, sockopt,
                    loc, ret, wire, binds, filedes >>

\* transport.c 228-229: both send mutexes are freed, locked or not
DestroyFreeSend(t) ==
    /\ pc[t] = "d_free_send"
    /\ lock_state' = [lock_state EXCEPT
                        !["send_mutex"] = "freed",
                        !["send_with_router_alert_mutex"] = "freed"]
    /\ held' = Release(Release(held, "send_mutex"),
                       "send_with_router_alert_mutex")
    /\ pc' = [pc EXCEPT ![t] = "d_unlock"]
    /\ loc' = [loc EXCEPT ![t].released =
                  @ \o << "send_mutex", "send_with_router_alert_mutex" >>]
    /\ UNCHANGED << transport, mem, handle, pgm_transport_list, sock_state,
                    recv_joined, txw_lead, recv_gsr, sockopt, ret, wire,
                    binds, filedes >>

\* transport.c 231-232
DestroyUnlock(t) ==
    /\ pc[t] = "d_unlock"
    /\ held' = Release(held, "mutex")
    /\ lock_state' = [lock_state EXCEPT !["mutex"] = "freed"]
    /\ pc' = [pc EXCEPT ![t] = "d_free"]
    /\ loc' = [loc EXCEPT ![t].released = Append(@, "mutex")]
    /\ UNCHANGED << transport, mem, handle, pgm_transport_list, sock_state,
                    recv_joined, txw_lead, recv_gsr, sockopt, ret, wire,
                    binds, filedes >>

\* transport.c 234-243
DestroyFree(t) ==
    /\ pc[t] = "d_free"
    /\ transport' = [transport EXCEPT !.rx_buffer = FALSE]
    /\ mem' = "freed"
    /\ pc' = [pc EXCEPT ![t] = "idle"]
    /\ ret' = [ret EXCEPT ![t] = [op |-> "destroy", val |-> "TRUE"]]
    /\ loc' = [loc EXCEPT ![t] = NoLoc]
    /\ UNCHANGED << handle, pgm_transport_list, lock_state, held, sock_state,
                    recv_joined, txw_lead, recv_gsr, sockopt, wire, binds,
                    filedes >>

-----------------------------------------------------------------------------
(* Receive group list: pgm_transport_join_group, pgm_transport_leave_group *)

GroupReq(i, g) == [gr_interface |-> i, gr_group |-> g]

\* the group requests tried
GroupReqs == { GroupReq(i, g) : i \in Interfaces, g \in Groups }

\* setsockopt () succeeds or fails
SockoptAnswers == {0, -1}

RetVal(rc) == IF rc = 0 THEN "0" ELSE "-1"

\* variant: a duplicate test that wants the interfaces equal
JoinGroupDuplicate_strict(gr, e) ==
    /\ gr.gr_group = e.gsr_group
    /\ gr.gr_group = e.gsr_source
    /\ gr.gr_interface = e.gsr_interface

\* transport.c 1419-1422: the entry that makes a join a duplicate
JoinGroupDuplicate(gr, e) ==
    /\ gr.gr_group = e.gsr_group
    /\ gr.gr_group = e.gsr_source
    /\ (gr.gr_interface = e.gsr_interface \/ 0 = e.gsr_interface)

\* transport.c 1438-1441: the entry join_group appends
JoinGroupEntry(gr) == GroupSourceReq(0, gr.gr_group, gr.gr_group)

\* transport.c 1411-1442
JoinGroup(t, gr, rc) ==
    /\ pc[t] = "idle"
    /\ Alive
    /\ ~transport.is_destroyed
    /\ wire' = [wire EXCEPT
                  !.last_join = gr,
                  !.joined = IF /\ Len(recv_gsr) < IP_MAX_MEMBERSHIPS
                                /\ \A i \in 1..Len(recv_gsr) :
                                      ~JoinGroupDuplicate(gr, recv_gsr[i])
                                /\ rc = 0
                             THEN @ \cup {gr} ELSE @]
    /\ IF ~(Len(recv_gsr) < IP_MAX_MEMBERSHIPS)
       THEN /\ ret' = [ret EXCEPT ![t] =
                         [op |-> "join_group", val |-> "-EINVAL"]]
            /\ UNCHANGED << recv_gsr, sockopt >>
       ELSE IF \E i \in 1..Len(recv_gsr) : JoinGroupDuplicate(gr, recv_gsr[i])
       THEN /\ ret' = [ret EXCEPT ![t] =
                         [op |-> "join_group", val |-> "-EINVAL"]]
            /\ UNCHANGED << recv_gsr, sockopt >>
       ELSE /\ recv_gsr' = Append(recv_gsr, JoinGroupEntry(gr))
            /\ sockopt' = [name |-> "MCAST_JOIN_GROUP", rc |-> rc,
                           n |-> sockopt.n + 1]
            /\ ret' = [ret EXCEPT ![t] =
                         [op |-> "join_group", val |-> RetVal(rc)]]
    /\ UNCHANGED << transport, mem, handle, pgm_transport_list, lock_state,
                    held, sock_state, recv_joined, txw_lead, pc, loc, binds,
                    filedes >>

\* transport.c 1461-1465: the entries leave_group drops
LeaveGroupMatches(gr, e) ==
    /\ gr.gr_group = e.gsr_group
    /\ (gr.gr_interface = 0 \/ gr.gr_interface = e.gsr_interface)

\* transport.c 1459-1475: the list after the loop
RECURSIVE LeaveGroupDrop(_, _)
LeaveGroupDrop(list, gr) ==
    IF list = << >> THEN << >>
    ELSE IF LeaveGroupMatches(gr, Head(list))
         THEN LeaveGroupDrop(Tail(list), gr)
         ELSE << Head(list) >> \o LeaveGroupDrop(Tail(list), gr)

\* transport.c 1454-1476: the call goes on only when the list is empty
LeaveGroup(t, gr, rc) ==
    /\ pc[t] = "idle"
    /\ Alive
    /\ ~transport.is_destroyed
    /\ IF ~(Len(recv_gsr) = 0)
       THEN /\ ret' = [ret EXCEPT ![t] =
                         [op |-> "leave_group", val |-> "-EINVAL"]]
            /\ UNCHANGED << recv_gsr, sockopt >>
       ELSE /\ recv_gsr' = LeaveGroupDrop(recv_gsr, gr)
            /\ sockopt' = [name |-> "MCAST_LEAVE_GROUP", rc |-> rc,
                           n |-> sockopt.n + 1]
            /\ ret' = [ret EXCEPT ![t] =
                         [op |-> "leave_group", val |-> RetVal(rc)]]
    /\ UNCHANGED << transport, mem, handle, pgm_transport_list, lock_state,
                    held, sock_state, recv_joined, txw_lead, pc, loc, wire,
                    binds, filedes >>

-----------------------------------------------------------------------------
(* Source-specific joins: pgm_transport_join_source_group,                 *)
(* pgm_transport_leave_source_group                                        *)

Sources == {"S1", "S2"}

\* the source requests tried
SourceReqs ==
    { GroupSourceReq(i, g, s) : i \in {1, 2}, g \in Groups, s \in Sources }

\* transport.c 1528-1531: an entry of the same group on the same interface,
\* or on all interfaces
JoinSourcePairing(gsr, e) ==
    /\ gsr.gsr_group = e.gsr_group
    /\ (gsr.gsr_interface = e.gsr_interface \/ 0 = e.gsr_interface)

\* transport.c 1526-1549: the loop stops at the first pairing, and the
\* request is a duplicate when that entry has its source
JoinSourceDuplicate(gsr, list) ==
    \E i \in 1..Len(list) :
       /\ JoinSourcePairing(gsr, list[i])
       /\ \A j \in 1..(i - 1) : ~JoinSourcePairing(gsr, list[j])
       /\ gsr.gsr_source = list[i].gsr_source

\* low 32 bits of the address of a group_source_req: a multiple of the
\* structure's alignment, 0 included
PointerLowBits == {0, 4096}

\* transport.c 1551: memcpy reads sizeof(struct group_source_req) bytes from
\* &gsr, the parameter itself: the interface field receives the low bits of
\* the pointer and the two addresses whatever follows the parameter on the
\* stack, which may or may not look like the request's addresses
StackImages(gsr) ==
    { GroupSourceReq(p, a[1], a[2]) :
        p \in PointerLowBits,
        a \in { << "stack", "stack" >>,
                << gsr.gsr_group, gsr.gsr_source >> } }

\* transport.c 1513-1554
JoinSourceGroup(t, gsr, img, rc) ==
    /\ pc[t] = "idle"
    /\ Alive
    /\ ~transport.is_destroyed
    /\ sockopt.n < MaxGroupCalls
    /\ img \in StackImages(gsr)
    /\ wire' = [wire EXCEPT
                  !.src_joined = IF /\ Len(recv_gsr) < IP_MAX_MEMBERSHIPS
                                    /\ ~JoinSourceDuplicate(gsr, recv_gsr)
                                    /\ rc = 0
                                 THEN @ \cup {gsr} ELSE @]
    /\ IF ~(Len(recv_gsr) < IP_MAX_MEMBERSHIPS)
       THEN /\ ret' = [ret EXCEPT ![t] =
                         [op |-> "join_source_group", val |-> "-EINVAL"]]
            /\ UNCHANGED << recv_gsr, sockopt >>
       ELSE IF JoinSourceDuplicate(gsr, recv_gsr)
       THEN /\ ret' = [ret EXCEPT ![t] =
                         [op |-> "join_source_group", val |-> "-EINVAL"]]
            /\ UNCHANGED << recv_gsr, sockopt >>
       ELSE /\ recv_gsr' = Append(recv_gsr, img)
            /\ sockopt' = [name |-> "MCAST_JOIN_SOURCE_GROUP", rc |-> rc,
                           n |-> sockopt.n + 1]
            /\ ret' = [ret EXCEPT ![t] =
                         [op |-> "join_source_group", val |-> RetVal(rc)]]
    /\ UNCHANGED << transport, mem, handle, pgm_transport_list, lock_state,
                    held, sock_state, recv_joined, txw_lead, pc, loc, binds,
                    filedes >>

\* transport.c 1571-1584: the list without its first entry equal to gsr
RECURSIVE LeaveSourceGroupDrop(_, _)
LeaveSourceGroupDrop(list, gsr) ==
    IF list = << >> THEN << >>
    ELSE IF /\ gsr.gsr_group = Head(list).gsr_group
            /\ gsr.gsr_source = Head(list).gsr_source
            /\ gsr.gsr_interface = Head(list).gsr_interface
         THEN Tail(list)
         ELSE << Head(list) >> \o LeaveSourceGroupDrop(Tail(list), gsr)

\* transport.c 1558-1587: the call goes on only when the list is empty
LeaveSourceGroup(t, gsr, rc) ==
    /\ pc[t] = "idle"
    /\ Alive
    /\ ~transport.is_destroyed
    /\ IF ~(Len(recv_gsr) = 0)
       THEN /\ ret' = [ret EXCEPT ![t] =
                         [op |-> "leave_source_group", val |-> "-EINVAL"]]
            /\ UNCHANGED << recv_gsr, sockopt >>
       ELSE /\ recv_gsr' = LeaveSourceGroupDrop(recv_gsr, gsr)
            /\ sockopt' = [name |-> "MCAST_LEAVE_SOURCE_GROUP", rc |-> rc,
                           n |-> sockopt.n + 1]
            /\ ret' = [ret EXCEPT ![t] =
                         [op |-> "leave_source_group", val |-> RetVal(rc)]]
    /\ UNCHANGED << transport, mem, handle, pgm_transport_list, lock_state,
                    held, sock_state, recv_joined, txw_lead, pc, loc, wire,
                    binds, filedes >>

-----------------------------------------------------------------------------
(* Use of the endpoint by a thread after destroy has freed what it uses *)

\* the lock the next step of thread t operates on
NextLock(t) ==
    CASE pc[t] \in {"e_lock", "e_unlock"} -> SelectMutex(loc[t].ra)
      [] pc[t] \in {"s_lock", "s_write"} -> "mutex"
      [] OTHER -> "none"

InsideCall(t) ==
    pc[t] \in {"e_lock", "e_sendto", "e_poll", "e_retry", "e_unlock",
               "s_lock", "s_write"}

\* A lock or unlock of a freed mutex, or a read of the freed endpoint, is
\* undefined: the thread may go on with the stale contents (the steps above)
\* or fault here.
Crash(t) ==
    /\ InsideCall(t)
    /\ \/ mem = "freed"
       \/ (NextLock(t) \in LockNames /\ lock_state[NextLock(t)] = "freed")
    /\ pc' = [pc EXCEPT ![t] = "crashed"]
    /\ loc' = [loc EXCEPT ![t] = NoLoc]
    /\ UNCHANGED << transport, mem, handle, pgm_transport_list, lock_state,
                    held, sock_state, recv_joined, txw_lead, recv_gsr,
                    sockopt, ret, wire, binds, filedes >>

-----------------------------------------------------------------------------
(* Specification of the endpoint life cycle under concurrent senders *)

\* configurator calls made while senders run
LifecycleSetterCalls ==
    { << "max_tpdu", 1500 >>, << "recv_only", FALSE >> }

Next ==
    \/ CreateOk(Owner, DefaultRecvAddrs)
    \/ \E fail \in CreateFailures : CreateFail(Owner, DefaultRecvAddrs, fail)
    \/ \E t \in Threads, c \in LifecycleSetterCalls : SetterCall(t, c[1], c[2])
    \/ \E t \in Threads : SetterLock(t)
    \/ \E t \in Threads : SetterWrite(t)
    \/ BindCall(Owner)
    \/ BindLock(Owner)
    \/ \E f \in BindFailPoints \cup {"none"}, j \in {0}, lead0 \in InitialLeads :
           BindSetup(Owner, f, j, lead0)
    \/ BindSpm(Owner)
    \/ BindSpmRet(Owner)
    \/ BindFinish(Owner)
    \/ BindUnlockSend(Owner)
    \/ BindUnlock(Owner)
    \/ \E t \in Senders, rl \in BOOLEAN, ra \in BOOLEAN, dw \in BOOLEAN :
           SendtoCall(t, rl, ra, dw)
    \/ \E t \in Threads : SendtoLock(t)
    \/ \E t \in Threads, e \in SendErrnos : SendtoFirst(t, e)
    \/ \E t \in Threads, r \in PollAnswers : SendtoPoll(t, r)
    \/ \E t \in Threads, e \in SendErrnos : SendtoRetry(t, e)
    \/ \E t \in Threads : SendtoUnlock(t)
    \/ \E t \in Senders, m \in 1..MaxFragments : ApduEagain(t, m)
    \/ DestroyCall(Owner, FALSE)
    \/ DestroyRollback(Owner)
    \/ DestroyLock(Owner)
    \/ DestroyLockSend(Owner)
    \/ DestroyLockRa(Owner)
    \/ DestroyTeardown(Owner, 0)
    \/ DestroyUnlockSend(Owner)
    \/ DestroyUnlockRa(Owner)
    \/ DestroyFreeSend(Owner)
    \/ DestroyUnlock(Owner)
    \/ DestroyFree(Owner)
    \/ \E t \in Threads : Crash(t)

Spec == Init /\ [][Next]_vars

-----------------------------------------------------------------------------
(* Specification of the receive group list: one thread, no endpoint locks *)

\* receive lists handed to create: any-source entries on all interfaces and
\* on one interface, a source-specific entry, two groups, and a list one
\* entry short of IP_MAX_MEMBERSHIPS
RecvAddrChoices ==
    { << GroupSourceReq(0, "G1", "G1") >>,
      << GroupSourceReq(1, "G1", "G1") >>,
      << GroupSourceReq(1, "G1", "S1") >>,
      << GroupSourceReq(1, "G1", "G1"), GroupSourceReq(2, "G2", "G2") >>,
      [i \in 1..(IP_MAX_MEMBERSHIPS - 1) |-> GroupSourceReq(1, "G1", "S1")] }

NextGroups ==
    \/ \E addrs \in RecvAddrChoices : CreateOk(Owner, addrs)
    \/ \E gr \in GroupReqs, rc \in SockoptAnswers : JoinGroup(Owner, gr, rc)
    \/ \E gr \in GroupReqs, rc \in SockoptAnswers : LeaveGroup(Owner, gr, rc)

SpecGroups == Init /\ [][NextGroups]_vars

-----------------------------------------------------------------------------
(* Specification of create alone: every info, every socket() failure *)

\* ports tried: none, two values that are each other's byte swap, and one
\* more
PortChoices == {0, 1, 256, 7500}

\* receive lists tried: empty, IPv4, IPv6, groups of two families, and a
\* source of another family than its group
CreateRecvChoices ==
    { << >>,
      << GroupSourceReq(1, "G1", "S1") >>,
      << GroupSourceReq(1, "G6", "S6") >>,
      << GroupSourceReq(1, "G1", "S1"), GroupSourceReq(1, "G6", "S6") >>,
      << GroupSourceReq(1, "G1", "S6") >> }

\* send lists tried: IPv4, IPv6, a source of another family than its group,
\* and two requests
CreateSendChoices ==
    { << GroupSourceReq(0, "G1", "S1") >>,
      << GroupSourceReq(0, "G6", "S6") >>,
      << GroupSourceReq(0, "G1", "S6") >>,
      << GroupSourceReq(0, "G1", "S1"), GroupSourceReq(0, "G2", "S1") >> }

CreateInfos ==
    { TransportInfo(sp, dp, uc, mc, recv, send) :
        sp \in PortChoices, dp \in PortChoices,
        uc \in {0, 3055}, mc \in {0, 3056},
        recv \in CreateRecvChoices, send \in CreateSendChoices }

\* the infos create refuses, and those it goes on with
RefusedInfos == { tinfo \in CreateInfos : CreateCheck(tinfo) # "ok" }
CheckedInfos == CreateInfos \ RefusedInfos

NextCreate ==
    \/ \E tinfo \in RefusedInfos : Create(Owner, tinfo, "none", 0)
    \/ \E tinfo \in CheckedInfos, fail \in CreateFailures :
          \E sport \in CreateSportChoices(tinfo) :
             Create(Owner, tinfo, fail, sport)

SpecCreate == Init /\ [][NextCreate]_vars

-----------------------------------------------------------------------------
(* Specification of the FEC configurator alone: one thread *)

\* set_fec arguments tried: k zero, one, powers of two, not a power of two
\* and beyond 128; n below, at and above k + 1 and beyond 255; proactive_h
\* zero, within and beyond n - k
FecArgs ==
    { FecArg(h, od, ~od, n, k) :
        h \in {0, 1, 3}, od \in BOOLEAN,
        n \in {2, 3, 5, 6, 255, 256}, k \in {0, 1, 2, 3, 4, 128, 256} }

NextFec ==
    \/ CreateOk(Owner, DefaultRecvAddrs)
    \/ \E v \in FecArgs : SetterCall(Owner, "fec", v)
    \/ SetterLock(Owner)
    \/ SetterWrite(Owner)

SpecFec == Init /\ [][NextFec]_vars

-----------------------------------------------------------------------------
(* Specification of the source-specific joins: one thread *)

\* receive lists handed to create: one source, two sources of a group, and
\* a list one entry short of IP_MAX_MEMBERSHIPS
SourceRecvAddrChoices ==
    { << GroupSourceReq(1, "G1", "S1") >>,
      << GroupSourceReq(1, "G1", "S1"), GroupSourceReq(1, "G1", "S2") >>,
      [i \in 1..(IP_MAX_MEMBERSHIPS - 1) |-> GroupSourceReq(1, "G1", "S1")] }

NextSourceGroups ==
    \/ \E addrs \in SourceRecvAddrChoices : CreateOk(Owner, addrs)
    \/ \E gsr \in SourceReqs, rc \in SockoptAnswers :
          \E img \in StackImages(gsr) : JoinSourceGroup(Owner, gsr, img, rc)
    \/ \E gsr \in SourceReqs, rc \in SockoptAnswers :
          LeaveSourceGroup(Owner, gsr, rc)

SpecSourceGroups == Init /\ [][NextSourceGroups]_vars

-----------------------------------------------------------------------------
(* Specification of configuration: one thread creates, configures and binds *)

NextConfig ==
    \/ CreateOk(Owner, DefaultRecvAddrs)
    \/ \E name \in CheckedSetters : \E v \in SetterArgs(name) :
           SetterCall(Owner, name, v)
    \/ SetterLock(Owner)
    \/ SetterWrite(Owner)
    \/ BindCall(Owner)
    \/ BindLock(Owner)
    \/ \E f \in BindFailPoints \cup {"none"}, j \in {0}, lead0 \in FirstLead :
           BindSetup(Owner, f, j, lead0)
    \/ BindSpm(Owner)
    \/ SendtoLock(Owner)
    \/ \E e \in SendErrnos : SendtoFirst(Owner, e)
    \/ \E r \in PollAnswers : SendtoPoll(Owner, r)
    \/ \E e \in SendErrnos : SendtoRetry(Owner, e)
    \/ SendtoUnlock(Owner)
    \/ BindSpmRet(Owner)
    \/ BindFinish(Owner)
    \/ BindUnlockSend(Owner)
    \/ BindUnlock(Owner)

SpecConfig == Init /\ [][NextConfig]_vars

-----------------------------------------------------------------------------
(* Specification of the mode and FEC configurators around bind *)

NextFlags ==
    \/ CreateOk(Owner, DefaultRecvAddrs)
    \/ \E name \in UncheckedSetters : \E v \in SetterArgs(name) :
           SetterCall(Owner, name, v)
    \/ SetterLock(Owner)
    \/ SetterWrite(Owner)
    \/ BindCall(Owner)
    \/ BindLock(Owner)
    \/ \E f \in BindFailPoints \cup {"none"}, j \in {0}, lead0 \in FirstLead :
           BindSetup(Owner, f, j, lead0)
    \/ BindSpm(Owner)
    \/ SendtoLock(Owner)
    \/ \E e \in SendErrnos : SendtoFirst(Owner, e)
    \/ \E r \in PollAnswers : SendtoPoll(Owner, r)
    \/ \E e \in SendErrnos : SendtoRetry(Owner, e)
    \/ SendtoUnlock(Owner)
    \/ BindSpmRet(Owner)
    \/ BindFinish(Owner)
    \/ BindUnlockSend(Owner)
    \/ BindUnlock(Owner)

SpecFlags == Init /\ [][NextFlags]_vars

-----------------------------------------------------------------------------
(* Specification of destroy after the mode configurators and bind, with the
   peers the receive path has left in peers_list *)

NextTeardown ==
    \/ NextFlags
    \/ \E flush \in BOOLEAN : DestroyCall(Owner, flush)
    \/ DestroyRollback(Owner)
    \/ DestroyLock(Owner)
    \/ DestroyLockSend(Owner)
    \/ DestroyLockRa(Owner)
    \/ \E n \in 0..MaxPeers : DestroyTeardown(Owner, n)
    \/ DestroyUnlockSend(Owner)
    \/ DestroyUnlockRa(Owner)
    \/ DestroyFreeSend(Owner)
    \/ DestroyUnlock(Owner)
    \/ DestroyFree(Owner)

SpecTeardown == Init /\ [][NextTeardown]_vars

-----------------------------------------------------------------------------
(* Properties *)

EmitterHolding == {"e_sendto", "e_poll", "e_retry", "e_unlock"}

DestroyPcs == {"d_rollback", "d_lock", "d_lock_send", "d_lock_ra",
               "d_teardown", "d_unlock_send", "d_unlock_ra", "d_free_send",
               "d_unlock", "d_free"}

\* C1: lock ordering.  A thread acquires the endpoint locks only in the order
\* mutex, peers_lock, window_lock, then a send mutex: of two locks a thread
\* holds, the one acquired first is never later in the hierarchy; in
\* particular mutex is never acquired while send_mutex is held.
LockOrderRespected ==
    \A t \in Threads : \A i \in 1..Len(held[t]) : \A j \in 1..Len(held[t]) :
        i < j => LockRank(held[t][i]) <= LockRank(held[t][j])

\* C2: in no reachable state does one thread hold send_mutex and
\* send_with_router_alert_mutex at the same time.
NeverBothSendMutexes ==
    \A t \in Threads :
        ~(Holds(t, "send_mutex") /\ Holds(t, "send_with_router_alert_mutex"))

\* C3: send_mutex stays locked by the creating thread from create until bind
\* has set is_bound: while the endpoint is unbound (and destroy has not freed
\* the mutex) no caller of _pgm_sendto without router alert is past the lock
\* and nothing has been sent on the send socket; the same is true while bind
\* has set is_bound but not yet released send_mutex.
SendMutexHeldUntilBound ==
    /\ (Alive /\ ~transport.is_bound /\ lock_state["send_mutex"] = "init") =>
          /\ Holds(Owner, "send_mutex")
          /\ ~wire.data
          /\ \A t \in Threads :
                ~(pc[t] \in EmitterHolding /\ ~loc[t].ra)
    /\ pc[Owner] = "b_unlock_send" =>
          /\ transport.is_bound
          /\ Holds(Owner, "send_mutex")
          /\ ~wire.data

\* a sender without router alert waits for send_mutex while bind, its SPMs
\* sent, is about to set is_bound
SenderBlockedBeforeBound ==
    /\ Alive
    /\ ~transport.is_bound
    /\ pc[Owner] = "b_finish"
    /\ \E t \in Senders : pc[t] = "e_lock" /\ ~loc[t].ra

\* C4: when bind has failed, partial success is not observable: the endpoint
\* is unbound and has no transmit window, peer table, notification channel,
\* rate regulator or random generator, and no socket is bound or joined.
BindFailureUnwinds ==
    \A t \in Threads :
        (/\ ret[t] = [op |-> "bind", val |-> "FALSE"]
         /\ Alive
         /\ ~transport.is_destroyed
         /\ ~transport.is_bound)
        => /\ ~transport.window
           /\ ~transport.peers_hashtable
           /\ ~transport.pending_notify
           /\ ~transport.rate_control
           /\ ~transport.rand_
           /\ \A sk \in SockNames : sock_state[sk] # "bound"
           /\ recv_joined = 0

\* the field each bound-checked configurator stores its argument in
ConfigField(name) ==
    CASE name = "max_tpdu" -> "max_tpdu"
      [] name = "multicast_loop" -> "use_multicast_loop"
      [] name = "hops" -> "hops"
      [] name = "sndbuf" -> "sndbuf"
      [] name = "rcvbuf" -> "rcvbuf"

\* an argument the configurator's contract admits whatever the system
\* maximum file gave
ValidConfigArg(name, v) ==
    CASE name = "max_tpdu" -> v >= MinTpdu
      [] name = "multicast_loop" -> v \in BOOLEAN
      [] name = "hops" -> v > 0 /\ v < 256
      [] name \in {"sndbuf", "rcvbuf"} ->
            v > 0 /\ \A env \in MemMaxEnvs : v <= env.mem_max

\* C5: on a bound endpoint set_max_tpdu, set_multicast_loop, set_hops,
\* set_sndbuf, set_rcvbuf and bind return FALSE and change no endpoint field;
\* on an unbound endpoint a setter called with a valid argument is accepted,
\* and what it then stores is exactly its argument in its own field.
BoundRejectsConfiguration ==
    [][ /\ \A name \in CheckedSetters : \A v \in SetterArgs(name) :
              SetterCall(Owner, name, v) =>
                 IF transport.is_bound
                 THEN /\ ret'[Owner] = [op |-> name, val |-> "FALSE"]
                      /\ pc'[Owner] = "idle"
                      /\ transport' = transport
                 ELSE ValidConfigArg(name, v) =>
                         /\ pc'[Owner] = "s_lock"
                         /\ loc'[Owner].op = name
                         /\ loc'[Owner].arg = v
                         /\ transport' = transport
        /\ (BindCall(Owner) /\ transport.is_bound) =>
              /\ ret'[Owner] = [op |-> "bind", val |-> "FALSE"]
              /\ pc'[Owner] = "idle"
              /\ transport' = transport
        /\ (pc[Owner] = "s_write" /\ pc'[Owner] # "s_write") =>
              /\ ~transport.is_bound
              /\ ret'[Owner] = [op |-> loc[Owner].op, val |-> "TRUE"]
              /\ transport' = [transport EXCEPT
                                 ![ConfigField(loc[Owner].op)] = loc[Owner].arg]
      ]_vars

\* set_hops is refused on a bound endpoint that was configured before bind
ConfiguratorRefusedWhenBound ==
    /\ transport.is_bound
    /\ transport.hops = 255
    /\ transport.max_tpdu = 1500
    /\ ret[Owner] = [op |-> "hops", val |-> "FALSE"]

FlagFields(tr) ==
    << tr.use_proactive_parity, tr.use_ondemand_parity, tr.use_varpkt_len,
       tr.rs_n, tr.rs_k, tr.rs_proactive_h, tr.can_send_data, tr.can_send_nak,
       tr.can_recv_data, tr.is_nonblocking, tr.is_abort_on_reset >>

\* C6: on a bound endpoint set_fec, set_send_only, set_recv_only,
\* set_nonblocking and set_abort_on_reset are rejected, and the FEC
\* parameters and the mode flags do not change.
BoundRejectsFlags ==
    [][ transport.is_bound =>
          /\ FlagFields(transport') = FlagFields(transport)
          /\ ret'[Owner].op \in UncheckedSetters =>
                ret'[Owner].val = "FALSE"
      ]_vars

\* thread t is in the SPM chain of bind
InSpmChain(t) ==
    \/ pc[t] \in {"b_spm", "b_spm_ret"}
    \/ (pc[t] \in EmitterHolding \cup {"e_lock"} /\ loc[t].caller = "bind")

SpmsBeforeBound ==
    /\ wire.spm <= SpmAnnounceCount
    /\ \A t \in Threads :
          pc[t] \in {"b_finish", "b_unlock_send", "b_unlock"} =>
             IF transport.can_send_data
             THEN loc[t].spm_n = SpmAnnounceCount /\ wire.spm = SpmAnnounceCount
             ELSE loc[t].spm_n = 0 /\ wire.spm = 0
    /\ \A t \in Threads :
          InSpmChain(t) =>
             /\ ~transport.is_bound
             /\ Holds(t, "send_mutex")
             /\ loc[t].spm_n < SpmAnnounceCount
             /\ wire.spm = loc[t].spm_n
    /\ (wire.data /\ lock_state["send_mutex"] = "init") =>
          /\ transport.is_bound
          /\ \/ wire.spm = SpmAnnounceCount
             \/ (wire.spm = 0 /\ ~transport.can_send_data)

\* C7: a successful bind of an endpoint that can send data sends exactly
\* three SPMs, each while is_bound is false and send_mutex is held, so nothing
\* is sent on the send socket before the third SPM; when one of the SPM sends
\* fails bind returns FALSE and is_bound stays false.
ThreeSpmsAnnounceBind ==
    [][ /\ SpmsBeforeBound
        /\ SpmsBeforeBound'
        /\ \A t \in Threads :
              (pc[t] = "b_spm_ret" /\ loc[t].sent = "fail"
                 /\ pc'[t] # "b_spm_ret") =>
                 /\ ret'[t] = [op |-> "bind", val |-> "FALSE"]
                 /\ pc'[t] = "idle"
                 /\ ~transport'.is_bound
      ]_vars

\* data has gone out on the send socket of an endpoint bound after three SPMs
DataAfterThreeSpms ==
    /\ transport.is_bound
    /\ ~transport.is_destroyed
    /\ transport.can_send_data
    /\ wire.spm = SpmAnnounceCount
    /\ wire.data

\* C8: destroy while sending.  No sendto is issued on a send socket destroy
\* has closed, no send mutex is locked or unlocked after destroy has freed
\* it, and a send started after destroy has returned does not go on to send.
DestroySafeForSenders ==
    [][ /\ ~wire'.on_closed
        /\ ~wire'.on_freed
        /\ \A t \in Senders :
              ~(mem = "freed" /\ pc[t] = "idle" /\ pc'[t] = "e_lock")
      ]_vars

\* C9: APDU rollback on destroy.  With is_apdu_eagain set, destroy's first
\* step sets the lead to first_sqn - 1 modulo 2^32, which is the lead before
\* the APDU, releases the window writer lock and clears the flag, with nothing
\* torn down yet; with the flag clear that step changes neither the lead nor
\* a lock; no later step of destroy changes the lead.
ApduRollbackOnDestroy ==
    [][ \A t \in Threads :
          /\ (pc[t] = "d_rollback" /\ pc'[t] # "d_rollback") =>
                IF transport.is_apdu_eagain
                THEN /\ txw_lead' = SqnPred(transport.first_sqn)
                     /\ txw_lead' = wire.pre_lead
                     /\ ~LockFree("window_lock")
                     /\ \A u \in Threads : "window_lock" \notin Range(held'[u])
                     /\ \A u \in Threads :
                           Without(held[u], "window_lock") = held'[u]
                     /\ ~transport'.is_apdu_eagain
                     /\ transport'.window = transport.window
                     /\ sock_state' = sock_state
                     /\ lock_state' = lock_state
                     /\ mem' = mem
                ELSE /\ txw_lead' = txw_lead
                     /\ held' = held
                     /\ transport' = transport
          /\ pc[t] \in DestroyPcs \ {"d_rollback"} =>
                /\ ~transport.is_apdu_eagain
                /\ txw_lead' = txw_lead
      ]_vars

\* destroy has rolled the lead back across the wrap from 0 to 2^32 - 1
RolledBackAcrossWrap ==
    /\ pc[Owner] = "d_lock"
    /\ wire.apdu
    /\ transport.first_sqn = [hi |-> 0, lo |-> 0]
    /\ txw_lead = [hi |-> HalfModulus - 1, lo |-> HalfModulus - 1]
    /\ LockFree("window_lock")

\* C10: a join_group that repeats an earlier successful join_group with the
\* same group and interface returns -EINVAL, issues no socket option and
\* leaves the receive list and its length unchanged.
RepeatedJoinRejected ==
    [][ \A gr \in GroupReqs :
          (gr \in wire.joined
             /\ \E rc \in SockoptAnswers : JoinGroup(Owner, gr, rc)) =>
             /\ ret'[Owner] = [op |-> "join_group", val |-> "-EINVAL"]
             /\ sockopt' = sockopt
             /\ recv_gsr' = recv_gsr
             /\ Len(recv_gsr') = Len(recv_gsr)
      ]_vars

\* the latest join_group repeated an accepted one and was refused with room
\* left in the list
RepeatedJoinRefused ==
    /\ wire.last_join \in wire.joined
    /\ wire.last_join.gr_interface # 0
    /\ ret[Owner] = [op |-> "join_group", val |-> "-EINVAL"]
    /\ Len(recv_gsr) < IP_MAX_MEMBERSHIPS

\* C11: join_group deduplicates by (group, source, interface): with room in
\* the list, join_group(G, i) is rejected only when an entry with group G,
\* source G and interface i is in the list, and an accepted join_group(G, i)
\* appends the entry (interface i, group G, source G).
JoinGroupByTriple ==
    [][ \A gr \in GroupReqs : \A rc \in SockoptAnswers :
          (JoinGroup(Owner, gr, rc)
             /\ Len(recv_gsr) < IP_MAX_MEMBERSHIPS) =>
             IF ret'[Owner].val = "-EINVAL"
             THEN \E i \in 1..Len(recv_gsr) :
                     recv_gsr[i] = GroupSourceReq(gr.gr_interface,
                                                  gr.gr_group, gr.gr_group)
             ELSE recv_gsr' =
                     Append(recv_gsr, GroupSourceReq(gr.gr_interface,
                                                     gr.gr_group,
                                                     gr.gr_group))
      ]_vars

\* C12: leave_group(G, i) on a list with entries for group G removes every
\* entry with group G (i = 0) or with group G and interface i (i # 0), keeps
\* the other entries in their order, shortens recv_gsr_len by the number
\* removed, and issues MCAST_LEAVE_GROUP.
LeaveGroupRemovesMatching ==
    [][ \A gr \in GroupReqs : \A rc \in SockoptAnswers :
          (LeaveGroup(Owner, gr, rc)
             /\ \E i \in 1..Len(recv_gsr) :
                   recv_gsr[i].gsr_group = gr.gr_group) =>
             LET Stays(e) == ~(/\ e.gsr_group = gr.gr_group
                               /\ (gr.gr_interface = 0
                                     \/ e.gsr_interface = gr.gr_interface))
                 removed == Cardinality({ i \in 1..Len(recv_gsr) :
                                             ~Stays(recv_gsr[i]) })
             IN  /\ recv_gsr' = SelectSeq(recv_gsr, Stays)
                 /\ Len(recv_gsr') = Len(recv_gsr) - removed
                 /\ sockopt'.name = "MCAST_LEAVE_GROUP"
                 /\ sockopt'.n = sockopt.n + 1
      ]_vars

\* C13: leave_group on a group with no entry in the list leaves the list and
\* recv_gsr_len unchanged and returns what the MCAST_LEAVE_GROUP socket call
\* returned.
LeaveGroupNotJoinedIsNoop ==
    [][ \A gr \in GroupReqs : \A rc \in SockoptAnswers :
          (LeaveGroup(Owner, gr, rc)
             /\ \A i \in 1..Len(recv_gsr) :
                   recv_gsr[i].gsr_group # gr.gr_group) =>
             /\ recv_gsr' = recv_gsr
             /\ Len(recv_gsr') = Len(recv_gsr)
             /\ sockopt' = [name |-> "MCAST_LEAVE_GROUP", rc |-> rc,
                            n |-> sockopt.n + 1]
             /\ ret'[Owner] = [op |-> "leave_group", val |-> RetVal(rc)]
      ]_vars

\* C14: after an accepted join_source_group(gsr) the last entry of the
\* receive list equals the request (interface, group and source) and
\* recv_gsr_len has grown by exactly one.
JoinSourceAppendsRequest ==
    [][ \A gsr \in SourceReqs : \A rc \in SockoptAnswers :
          \A img \in StackImages(gsr) :
             (JoinSourceGroup(Owner, gsr, img, rc)
                /\ ret'[Owner].val # "-EINVAL") =>
                /\ Len(recv_gsr') = Len(recv_gsr) + 1
                /\ recv_gsr'[Len(recv_gsr')] = gsr
      ]_vars

\* C15: a join_source_group(G, S, i) issued after a request with the same
\* group, source and interface was accepted returns -EINVAL and leaves the
\* list unchanged, whatever other sources of G were joined before it.
RepeatedSourceJoinRejected ==
    [][ \A gsr \in SourceReqs : \A rc \in SockoptAnswers :
          \A img \in StackImages(gsr) :
             (gsr \in wire.src_joined
                /\ JoinSourceGroup(Owner, gsr, img, rc)) =>
                /\ ret'[Owner] =
                      [op |-> "join_source_group", val |-> "-EINVAL"]
                /\ recv_gsr' = recv_gsr
      ]_vars

\* C16: leave_source_group(G, S, i) on a list with an entry equal to
\* (G, S, i) removes that one entry, keeps the others in order and
\* shortens recv_gsr_len by one.
LeaveSourceRemovesOne ==
    [][ \A gsr \in SourceReqs : \A rc \in SockoptAnswers :
          (LeaveSourceGroup(Owner, gsr, rc)
             /\ \E i \in 1..Len(recv_gsr) : recv_gsr[i] = gsr) =>
             LET k == CHOOSE i \in 1..Len(recv_gsr) :
                         /\ recv_gsr[i] = gsr
                         /\ \A j \in 1..(i - 1) : recv_gsr[j] # gsr
             IN  /\ Len(recv_gsr') = Len(recv_gsr) - 1
                 /\ recv_gsr' = SubSeq(recv_gsr, 1, k - 1)
                                   \o SubSeq(recv_gsr, k + 1, Len(recv_gsr))
      ]_vars

\* the latest call of the owner was a create that returned TRUE / FALSE
CreateReturned(val) == ret[Owner] = [op |-> "create", val |-> val]

\* nothing of an endpoint exists: no memory, handle, list entry, lock or
\* socket
NothingAllocated ==
    /\ mem = "none"
    /\ ~handle
    /\ pgm_transport_list = << >>
    /\ \A l \in LockNames : lock_state[l] = "uninit"
    /\ \A s \in SockNames : sock_state[s] = "none"

\* the receive requests of an info are of one family, sources included
RecvOneFamily(tinfo) ==
    \A i \in 1..Len(tinfo.ti_recv_addrs) :
       /\ pgm_sockaddr_family(tinfo.ti_recv_addrs[i].gsr_group)
             = pgm_sockaddr_family(tinfo.ti_recv_addrs[1].gsr_group)
       /\ pgm_sockaddr_family(tinfo.ti_recv_addrs[i].gsr_source)
             = pgm_sockaddr_family(tinfo.ti_recv_addrs[i].gsr_group)

\* the first send request's group and source are of one family
SendOneFamily(tinfo) ==
    Len(tinfo.ti_send_addrs) > 0 =>
       pgm_sockaddr_family(tinfo.ti_send_addrs[1].gsr_group)
          = pgm_sockaddr_family(tinfo.ti_send_addrs[1].gsr_source)

\* the send request is of the family of the receive requests
SendFamilyIsRecvFamily(tinfo) ==
    (Len(tinfo.ti_send_addrs) > 0 /\ Len(tinfo.ti_recv_addrs) > 0) =>
       pgm_sockaddr_family(tinfo.ti_send_addrs[1].gsr_group)
          = pgm_sockaddr_family(tinfo.ti_recv_addrs[1].gsr_group)

\* C17 as stated: create fails unless the receive requests share one family,
\* sources included, and the send request's group and source have that same
\* family; after such a failure nothing is allocated or registered.
CreateWantsOneFamily ==
    ret[Owner].op = "create" =>
       /\ CreateReturned("TRUE") =>
             /\ RecvOneFamily(wire.info)
             /\ SendOneFamily(wire.info)
             /\ SendFamilyIsRecvFamily(wire.info)
       /\ ~(/\ RecvOneFamily(wire.info)
            /\ SendOneFamily(wire.info)
            /\ SendFamilyIsRecvFamily(wire.info)) =>
             /\ CreateReturned("FALSE")
             /\ NothingAllocated

\* C17 amended: create fails unless the receive requests share one family,
\* sources included, and the send request's group and source share one
\* family, which may differ from the receive family; after such a failure
\* nothing is allocated or registered.
CreateFamiliesPerList ==
    ret[Owner].op = "create" =>
       /\ CreateReturned("TRUE") =>
             /\ RecvOneFamily(wire.info)
             /\ SendOneFamily(wire.info)
       /\ ~(RecvOneFamily(wire.info) /\ SendOneFamily(wire.info)) =>
             /\ CreateReturned("FALSE")
             /\ NothingAllocated

\* create refused an info, sound in ports and lengths, whose receive source
\* is of another family than its group
FamilyMismatchRefused ==
    /\ CreateReturned("FALSE")
    /\ CreatePortCheck(wire.info)
    /\ CreateLenCheck(wire.info)
    /\ SendOneFamily(wire.info)
    /\ ~RecvOneFamily(wire.info)
    /\ \A i \in 1..Len(wire.info.ti_recv_addrs) :
          pgm_sockaddr_family(wire.info.ti_recv_addrs[i].gsr_group)
             = "AF_INET"
    /\ NothingAllocated

\* exactly one of the two UDP encapsulation ports of an info is set
OneEncapPort(tinfo) ==
    (tinfo.ti_udp_encap_ucast_port = 0) # (tinfo.ti_udp_encap_mcast_port = 0)

\* C18: create fails when a source port is given and equals the destination
\* port, and when exactly one of the two UDP encapsulation ports is set;
\* after a successful create the TSI source port differs from the
\* destination port, also when it was drawn at random.
CreateValidatesPorts ==
    ret[Owner].op = "create" =>
       /\ (wire.info.ti_sport # 0
             /\ wire.info.ti_sport = wire.info.ti_dport) =>
             CreateReturned("FALSE") /\ NothingAllocated
       /\ OneEncapPort(wire.info) =>
             CreateReturned("FALSE") /\ NothingAllocated
       /\ CreateReturned("TRUE") => transport.tsi_sport # transport.dport

\* create succeeded without a source port given, with a destination port
\* that the random draw can return
RandomSportAvoidsDport ==
    /\ CreateReturned("TRUE")
    /\ wire.info.ti_sport = 0
    /\ wire.info.ti_dport \in RandomPorts
    /\ wire.info.ti_dport # 0
    /\ transport.dport = Htons(wire.info.ti_dport)
    /\ transport.tsi_sport # transport.dport

\* C19 as stated: after a successful create the five flags can_send_data,
\* can_send_nak, can_recv_data, is_nonblocking and use_multicast_loop are
\* true, and is_bound and is_destroyed are false.
CreateSetsAllFlags ==
    CreateReturned("TRUE") =>
       /\ transport.can_send_data
       /\ transport.can_send_nak
       /\ transport.can_recv_data
       /\ transport.is_nonblocking
       /\ transport.use_multicast_loop
       /\ ~transport.is_bound
       /\ ~transport.is_destroyed

\* C19 amended: after a successful create can_send_data, can_send_nak and
\* can_recv_data are true, is_nonblocking and use_multicast_loop are false,
\* and is_bound and is_destroyed are false.
CreateSetsCapabilities ==
    CreateReturned("TRUE") =>
       /\ transport.can_send_data
       /\ transport.can_send_nak
       /\ transport.can_recv_data
       /\ ~transport.is_nonblocking
       /\ ~transport.use_multicast_loop
       /\ ~transport.is_bound
       /\ ~transport.is_destroyed

\* create succeeded on an IPv6 info with UDP encapsulation
CreatedWithCapabilities ==
    /\ CreateReturned("TRUE")
    /\ mem = "allocated"
    /\ handle
    /\ wire.info.ti_udp_encap_ucast_port # 0
    /\ pgm_sockaddr_family(recv_gsr[1].gsr_group) = "AF_INET6"
    /\ transport.can_send_data
    /\ ~transport.use_multicast_loop

\* C20: after a failed create every socket opened is closed, every lock
\* initialised is freed and none is held, the memory is freed, the caller's
\* handle is not set and the endpoint is not in the global list.
CreateFailureReleasesAll ==
    CreateReturned("FALSE") =>
       /\ \A s \in SockNames : sock_state[s] # "open"
       /\ \A l \in LockNames : lock_state[l] \in {"uninit", "freed"}
       /\ \A t \in Threads : held[t] = << >>
       /\ mem # "allocated"
       /\ ~handle
       /\ pgm_transport_list = << >>

\* (n, k, h) as the FEC rules want them: k a power of two in 2..128,
\* k + 1 <= n <= 255, h <= n - k
FecRule(n, k, h) ==
    /\ k \in {2, 4, 8, 16, 32, 64, 128}
    /\ k + 1 <= n
    /\ n <= 255
    /\ h <= n - k

\* the FEC fields of an endpoint obey the rules
FecStored(tr) ==
    /\ FecRule(tr.rs_n, tr.rs_k, tr.rs_proactive_h)
    /\ tr.use_proactive_parity <=> (tr.rs_proactive_h > 0)

\* the FEC fields of an endpoint are as create left them
FecUnset(tr) ==
    /\ tr.rs_n = 0
    /\ tr.rs_k = 0
    /\ tr.rs_proactive_h = 0
    /\ ~tr.use_proactive_parity
    /\ ~tr.use_ondemand_parity
    /\ ~tr.use_varpkt_len

\* C21 as stated: after any sequence of set_fec calls the stored rs_n, rs_k
\* and rs_proactive_h obey the FEC rules and use_proactive_parity is true
\* exactly when rs_proactive_h > 0.
FecStoredAfterAnyCalls ==
    (ret[Owner].op = "fec" /\ Alive) => FecStored(transport)

\* C21 amended: the FEC fields are as create left them until a set_fec call
\* is accepted, and from then on they obey the FEC rules with
\* use_proactive_parity true exactly when rs_proactive_h > 0; a set_fec
\* call whose arguments break a rule returns FALSE and leaves all FEC
\* fields unchanged, and an accepted call stores its arguments.
FecConfigurationValid ==
    [][ /\ Alive => (FecUnset(transport) \/ FecStored(transport))
        /\ FecStored(transport) /\ Alive' => FecStored(transport')
        /\ \A v \in FecArgs :
              (SetterCall(Owner, "fec", v) /\ ~FecRule(v.n, v.k, v.h)) =>
                 /\ ret'[Owner] = [op |-> "fec", val |-> "FALSE"]
                 /\ transport' = transport
        /\ (SetterWrite(Owner) /\ loc[Owner].op = "fec") =>
              /\ FecStored(transport')
              /\ transport'.rs_n = loc[Owner].arg.n
              /\ transport'.rs_k = loc[Owner].arg.k
              /\ transport'.rs_proactive_h = loc[Owner].arg.h
      ]_vars

\* a set_fec call was refused after an accepted one stored proactive parity
FecRefusedAfterStored ==
    /\ ret[Owner] = [op |-> "fec", val |-> "FALSE"]
    /\ transport.rs_k = 128
    /\ transport.rs_n = 255
    /\ transport.rs_proactive_h = 3
    /\ transport.use_proactive_parity

\* C22: a _pgm_sendto call with use_rate_limit that the rate regulator
\* answers with would-block returns would-block at once, with no send mutex
\* taken and no sendto made; without use_rate_limit the regulator is not
\* asked.
RateLimitRefusesBeforeLock ==
    [][ \A t \in Threads : \A rl \in BOOLEAN, ra \in BOOLEAN, dw \in BOOLEAN :
          \A rate \in {"none", "ok", "EAGAIN"} :
             SendtoEnter(t, rl, ra, dw, rate) =>
                /\ ~rl <=> (rate = "none")
                /\ rate = "EAGAIN" =>
                      /\ ret'[t] = [op |-> "sendto", val |-> "EAGAIN"]
                      /\ pc'[t] = "idle"
                      /\ held' = held
                      /\ wire' = wire
                      /\ loc' = loc
      ]_vars

\* a sender was refused by the regulator on a bound endpoint that no thread
\* has sent data on, and holds no lock
SenderRefusedByRegulator ==
    /\ \E t \in Senders :
          /\ ret[t] = [op |-> "sendto", val |-> "EAGAIN"]
          /\ pc[t] = "idle"
          /\ held[t] = << >>
    /\ transport.is_bound
    /\ Alive
    /\ ~wire.data

\* a first sendto result after which the claim allows a wait and a retry
WorthRetry(errno, dontwait) ==
    /\ errno \notin {"OK", "ENETUNREACH", "EHOSTUNREACH"}
    /\ ~(errno = "EAGAIN" /\ dontwait)

\* C23: one _pgm_sendto call makes at most two sendto attempts; the second
\* is made only after the first failed with an error other than
\* network-unreachable, host-unreachable or would-block under MSG_DONTWAIT
\* and the one writability wait answered ready; after a timeout or a failed
\* wait there is no second attempt and the failure of the first is returned.
RetryAtMostOnce ==
    [][ \A t \in Threads :
          /\ loc'[t].attempts <= 2
          /\ loc'[t].attempts > loc[t].attempts =>
                \E e \in SendErrnos : SendtoFirst(t, e) \/ SendtoRetry(t, e)
          /\ \A e \in SendErrnos :
                SendtoFirst(t, e) =>
                   /\ loc[t].attempts = 0
                   /\ loc'[t].attempts = 1
                   /\ pc'[t] = IF WorthRetry(e, loc[t].dontwait)
                               THEN "e_poll" ELSE "e_unlock"
          /\ \A r \in PollAnswers :
                SendtoPoll(t, r) =>
                   /\ loc[t].polled = "none"
                   /\ loc[t].attempts = 1
                   /\ loc[t].sent = "fail"
                   /\ loc'[t].attempts = 1
                   /\ loc'[t].sent = "fail"
                   /\ pc'[t] = IF r = "ready" THEN "e_retry" ELSE "e_unlock"
          /\ \A e \in SendErrnos :
                SendtoRetry(t, e) =>
                   /\ loc[t].polled # "none"
                   /\ loc[t].attempts = 1
                   /\ loc'[t].attempts = 2
                   /\ pc'[t] = "e_unlock"
          /\ (SendtoUnlock(t) /\ loc[t].caller = "api") =>
                ret'[t] = [op |-> "sendto", val |-> loc[t].sent]
      ]_vars

\* a sender is about to return from a call that waited once and then sent a
\* second time
SecondAttemptAfterWait ==
    \E t \in Senders :
       /\ pc[t] = "e_unlock"
       /\ loc[t].attempts = 2
       /\ loc[t].polled # "none"

\* the mutex the claim pairs with a send socket
PairedMutex(s) ==
    IF s = "send_with_router_alert_sock"
    THEN "send_with_router_alert_mutex" ELSE "send_mutex"

\* the threads at a sendto of _pgm_sendto on send socket s
InSendto(s) == { t \in Threads : pc[t] \in {"e_sendto", "e_retry"}
                                  /\ loc[t].sock = s }

\* C24: every sendto of _pgm_sendto on a send socket is made by a thread
\* that holds the mutex paired with the socket, so no two threads are at a
\* sendto on one socket; every return after the acquire releases that mutex,
\* held once, and returns the result of the last attempt.
SendtoUnderPairedMutex ==
    [][ /\ \A s \in SockNames \ {"recv_sock"} :
              /\ \A t \in InSendto(s) : Holds(t, PairedMutex(s))
              /\ Cardinality(InSendto(s)) <= 1
        /\ \A t \in Threads :
              (pc[t] \in EmitterHolding /\ pc'[t] \notin EmitterHolding) =>
                 /\ SendtoUnlock(t)
                 /\ Len(SelectSeq(held[t],
                       LAMBDA l : l = SelectMutex(loc[t].ra))) = 1
                 /\ ~Holds(t, SelectMutex(loc[t].ra))'
                 /\ loc[t].caller = "api" =>
                       ret'[t] = [op |-> "sendto", val |-> loc[t].sent]
      ]_vars

\* C25: a bind on an endpoint whose hop limit was never set gives the
\* sockets a multicast hop limit of 16; after an accepted set_hops it gives
\* them the accepted value, which lies in 1..255.
BindAppliesHopLimit ==
    [][ \A lead0 \in FirstLead :
          BindSetup(Owner, "none", 0, lead0) =>
             IF transport.hops = 0
             THEN wire'.hops = 16
             ELSE /\ wire'.hops = transport.hops
                  /\ wire'.hops \in 1..255
      ]_vars

-----------------------------------------------------------------------------
\* Notification descriptors: select_info, poll_info, epoll_ctl

Waiter == "snd"

InfoRefused_never(tr) == FALSE

\* transport.c 1121, 1168, 1224: the test of is_destroyed
InfoRefused(tr) == tr.is_destroyed

\* the descriptor held in a socket field; a zeroed field reads as descriptor 0
SockFd(tr, s) == IF tr[s] THEN s ELSE "fd0"

\* transport.c 1134, 1185, 1244: pgm_notify_get_fd of pending_notify
NotifyFd(tr) == IF tr.pending_notify THEN "notify" ELSE "fd0"

\* descriptor numbers handed out by the system, in order of creation
FdNumber(fd) ==
    CASE fd = "fd0" -> 0
      [] fd = "recv_sock" -> 3
      [] fd = "send_sock" -> 4
      [] fd = "send_with_router_alert_sock" -> 5
      [] fd = "notify" -> 6

Max(a, b) == IF a > b THEN a ELSE b

\* transport.c 1126-1147
select_info_fds(tr, readfds, writefds) ==
    LET r1 == IF readfds THEN FdNumber(SockFd(tr, "recv_sock")) + 1 ELSE 0
        r2 == IF readfds /\ tr.can_recv_data
              THEN Max(r1, FdNumber(NotifyFd(tr)) + 1) ELSE r1
    IN  IF tr.can_send_data /\ writefds
        THEN Max(FdNumber(SockFd(tr, "send_sock")) + 1, r2) ELSE r2

\* transport.c 1110-1148: the descriptors set in each fd_set, *n_fds and errno
select_info(tr, readfds, writefds, n_fds) ==
    IF InfoRefused(tr)
    THEN [op |-> "select_info", val |-> "-1", errno |-> "EBADF",
          readfds |-> {}, writefds |-> {}, n_fds |-> n_fds]
    ELSE [op |-> "select_info", val |-> "n_fds", errno |-> "none",
          readfds |-> IF readfds
                      THEN {SockFd(tr, "recv_sock")} \cup
                           (IF tr.can_recv_data THEN {NotifyFd(tr)} ELSE {})
                      ELSE {},
          writefds |-> IF tr.can_send_data /\ writefds
                       THEN {SockFd(tr, "send_sock")} ELSE {},
          n_fds |-> Max(select_info_fds(tr, readfds, writefds), n_fds)]

\* transport.c 1156-1201: the pollfd entries filled, *n_fds and errno
poll_info(tr, n_fds, events) ==
    IF InfoRefused(tr)
    THEN [op |-> "poll_info", val |-> "-1", errno |-> "EBADF",
          fds |-> << >>, n_fds |-> n_fds]
    ELSE LET in_ == IF "POLLIN" \in events
                    THEN << [fd |-> SockFd(tr, "recv_sock"),
                             events |-> {"POLLIN"}] >> \o
                         (IF tr.can_recv_data
                          THEN << [fd |-> NotifyFd(tr),
                                   events |-> {"POLLIN"}] >>
                          ELSE << >>)
                    ELSE << >>
             out == IF tr.can_send_data /\ "POLLOUT" \in events
                    THEN << [fd |-> SockFd(tr, "send_sock"),
                             events |-> {"POLLOUT"}] >>
                    ELSE << >>
         IN  [op |-> "poll_info", val |-> "n_fds", errno |-> "none",
              fds |-> in_ \o out, n_fds |-> Len(in_ \o out)]

\* transport.c 1113-1148
SelectInfo(t, readfds, writefds, n_fds) ==
    /\ pc[t] = "idle"
    /\ Alive
    /\ ret' = [ret EXCEPT ![t] = select_info(transport, readfds, writefds,
                                             n_fds)]
    /\ UNCHANGED << transport, mem, handle, pgm_transport_list, lock_state,
                    held, sock_state, recv_joined, txw_lead, recv_gsr,
                    sockopt, pc, loc, wire, binds, filedes >>

\* transport.c 1159-1201
PollInfo(t, n_fds, events) ==
    /\ pc[t] = "idle"
    /\ Alive
    /\ ret' = [ret EXCEPT ![t] = poll_info(transport, n_fds, events)]
    /\ UNCHANGED << transport, mem, handle, pgm_transport_list, lock_state,
                    held, sock_state, recv_joined, txw_lead, recv_gsr,
                    sockopt, pc, loc, wire, binds, filedes >>

EpollOps == {"EPOLL_CTL_ADD", "EPOLL_CTL_MOD", "EPOLL_CTL_DEL"}

EpollEvents == SUBSET {"EPOLLIN", "EPOLLOUT", "EPOLLET"}

\* the registration the system may refuse, by the field it is made for
EpollFailures == {"none", "recv_sock", "pending_notify", "send_sock"}

\* the calls made: every ADD, and one call of each operation that is not ADD
EpollCalls ==
    { << "EPOLL_CTL_ADD", events, fail >> :
         events \in EpollEvents, fail \in EpollFailures }
    \cup { << op, {"EPOLLIN", "EPOLLET"}, "none" >> :
              op \in EpollOps \ {"EPOLL_CTL_ADD"} }

\* epoll_ctl(2) with EPOLL_CTL_ADD: a registered descriptor is refused (EEXIST)
EpollRefuses(reg, fd, field, fail) == fail = field \/ reg[fd] # {}

\* transport.c 1219-1228
EpollCheck(tr, op) ==
    IF op # "EPOLL_CTL_ADD" THEN "EINVAL"
    ELSE IF InfoRefused(tr) THEN "EBADF"
    ELSE "ok"

EpollRecords_before_registration(events, recv_ok) == "EPOLLET" \in events

\* transport.c 1234-1252: the flag is written after both registrations
EpollRecords(events, recv_ok) == recv_ok /\ "EPOLLET" \in events

\* transport.c 1211-1263
EpollCtl(t, op, events, fail) ==
    /\ pc[t] = "idle"
    /\ Alive
    /\ IF EpollCheck(transport, op) # "ok"
       THEN /\ ret' = [ret EXCEPT ![t] =
                         [op |-> "epoll_ctl", val |-> "-1",
                          errno |-> EpollCheck(transport, op)]]
            /\ UNCHANGED << transport, wire >>
       ELSE LET rfd == SockFd(transport, "recv_sock")
                nfd == NotifyFd(transport)
                sfd == SockFd(transport, "send_sock")
                wants_in == "EPOLLIN" \in events
                in_ev == events \cap {"EPOLLIN", "EPOLLET"}
                out_ev == events \cap {"EPOLLOUT", "EPOLLET"}
                r_ok == wants_in /\ ~EpollRefuses(wire.epoll, rfd, "recv_sock", fail)
                reg1 == IF r_ok THEN [wire.epoll EXCEPT ![rfd] = in_ev]
                        ELSE wire.epoll
                wants_n == r_ok /\ transport.can_recv_data
                n_ok == wants_n /\ ~EpollRefuses(reg1, nfd, "pending_notify", fail)
                reg2 == IF n_ok THEN [reg1 EXCEPT ![nfd] = in_ev] ELSE reg1
                recv_ok == r_ok /\ (wants_n => n_ok)
                in_failed == wants_in /\ ~recv_ok
                wants_out == /\ ~in_failed
                             /\ transport.can_send_data
                             /\ "EPOLLOUT" \in events
                s_ok == wants_out /\ ~EpollRefuses(reg2, sfd, "send_sock", fail)
                reg3 == IF s_ok THEN [reg2 EXCEPT ![sfd] = out_ev] ELSE reg2
                failed == in_failed \/ (wants_out /\ ~s_ok)
            IN  /\ wire' = [wire EXCEPT !.epoll = reg3]
                /\ transport' =
                     [transport EXCEPT !.is_edge_triggered_recv =
                        @ \/ EpollRecords(events, recv_ok)]
                /\ ret' = [ret EXCEPT ![t] =
                             [op |-> "epoll_ctl",
                              val |-> IF failed THEN "-1" ELSE "0",
                              errno |-> IF failed THEN "epoll" ELSE "none"]]
    /\ UNCHANGED << mem, handle, pgm_transport_list, lock_state, held,
                    sock_state, recv_joined, txw_lead, recv_gsr, sockopt,
                    pc, loc, binds, filedes >>


NextNotify ==
    \/ CreateOk(Owner, DefaultRecvAddrs)
    \/ \E c \in {<< "send_only", TRUE >>, << "recv_only", TRUE >>} :
           SetterCall(Owner, c[1], c[2])
    \/ SetterLock(Owner)
    \/ SetterWrite(Owner)
    \/ DestroyCall(Owner, FALSE)
    \/ DestroyRollback(Owner)
    \/ DestroyLock(Owner)
    \/ DestroyTeardown(Owner, 0)
    \/ DestroyFreeSend(Owner)
    \/ DestroyUnlock(Owner)
    \/ DestroyFree(Owner)
    \/ \E readfds \in BOOLEAN, writefds \in BOOLEAN, n_fds \in {0, 8} :
           SelectInfo(Waiter, readfds, writefds, n_fds)
    \/ \E events \in SUBSET {"POLLIN", "POLLOUT"} :
           PollInfo(Waiter, 3, events)
    \/ \E c \in EpollCalls : EpollCtl(Waiter, c[1], c[2], c[3])

SpecNotify == Init /\ [][NextNotify]_vars


\* what a refused select_info or poll_info leaves in the caller's arguments
WaitArgsUntouched(r, n_fds) ==
    /\ r.n_fds = n_fds
    /\ (r.op = "select_info" => r.readfds = {} /\ r.writefds = {})
    /\ (r.op = "poll_info" => r.fds = << >>)

Refused(r, errno) == r.val = "-1" /\ r.errno = errno

\* C26 as stated: on an endpoint whose is_destroyed flag is set, select_info,
\* poll_info and epoll_ctl (whatever its operation) return -1 with EBADF and
\* modify nothing
DestroyedAlwaysBadDescriptor ==
    [][ transport.is_destroyed =>
          /\ \A readfds \in BOOLEAN, writefds \in BOOLEAN, n_fds \in {0, 8} :
               SelectInfo(Waiter, readfds, writefds, n_fds) =>
                  /\ Refused(ret'[Waiter], "EBADF")
                  /\ WaitArgsUntouched(ret'[Waiter], n_fds)
          /\ \A events \in SUBSET {"POLLIN", "POLLOUT"} :
               PollInfo(Waiter, 3, events) =>
                  /\ Refused(ret'[Waiter], "EBADF")
                  /\ WaitArgsUntouched(ret'[Waiter], 3)
          /\ \A c \in EpollCalls :
               EpollCtl(Waiter, c[1], c[2], c[3]) =>
                  /\ Refused(ret'[Waiter], "EBADF")
                  /\ wire'.epoll = wire.epoll
                  /\ transport' = transport
      ]_vars

\* C26 (amended): epoll_ctl with an operation other than ADD returns -1 with
\* EINVAL whether or not the endpoint is destroyed; on an endpoint whose
\* is_destroyed flag is set, select_info, poll_info and epoll_ctl with ADD
\* return -1 with EBADF; a refused call modifies nothing
DestroyedRefusesWaits ==
    [][ /\ \A readfds \in BOOLEAN, writefds \in BOOLEAN, n_fds \in {0, 8} :
             (transport.is_destroyed
                /\ SelectInfo(Waiter, readfds, writefds, n_fds)) =>
                  /\ Refused(ret'[Waiter], "EBADF")
                  /\ WaitArgsUntouched(ret'[Waiter], n_fds)
        /\ \A events \in SUBSET {"POLLIN", "POLLOUT"} :
             (transport.is_destroyed /\ PollInfo(Waiter, 3, events)) =>
                  /\ Refused(ret'[Waiter], "EBADF")
                  /\ WaitArgsUntouched(ret'[Waiter], 3)
        /\ \A c \in EpollCalls :
             EpollCtl(Waiter, c[1], c[2], c[3]) =>
                  /\ (c[1] # "EPOLL_CTL_ADD" =>
                        /\ Refused(ret'[Waiter], "EINVAL")
                        /\ wire'.epoll = wire.epoll
                        /\ transport' = transport)
                  /\ (c[1] = "EPOLL_CTL_ADD" /\ transport.is_destroyed =>
                        /\ Refused(ret'[Waiter], "EBADF")
                        /\ wire'.epoll = wire.epoll
                        /\ transport' = transport)
      ]_vars

\* a waiter was refused with EBADF while destroy is tearing the endpoint down
WaiterRefusedOnDestroyed ==
    /\ Alive
    /\ transport.is_destroyed
    /\ ret[Waiter].op = "epoll_ctl"
    /\ Refused(ret[Waiter], "EBADF")


\* this step registered descriptor fd with the epoll set for events ev
NewlyRegistered(fd, ev) == wire.epoll[fd] = {} /\ wire'.epoll[fd] = ev

\* this step registered the receive socket, and the notification descriptor
\* too when the endpoint can receive data
RecvSideRegistered(events) ==
    LET ev == events \cap {"EPOLLIN", "EPOLLET"} IN
    /\ NewlyRegistered(SockFd(transport, "recv_sock"), ev)
    /\ transport.can_recv_data => NewlyRegistered(NotifyFd(transport), ev)

\* C27: is_edge_triggered_recv becomes true exactly when epoll_ctl is called
\* with ADD and events containing EPOLLIN and EPOLLET and the receive socket
\* (and the notification descriptor when can_recv_data) was registered; a
\* failed registration or a call without EPOLLET leaves it unchanged, and no
\* operation resets it to false
EdgeTriggeredRecorded ==
    [][ /\ transport.is_edge_triggered_recv =>
              transport'.is_edge_triggered_recv
        /\ \A c \in EpollCalls :
              EpollCtl(Waiter, c[1], c[2], c[3]) =>
                 (transport'.is_edge_triggered_recv <=>
                    \/ transport.is_edge_triggered_recv
                    \/ /\ c[1] = "EPOLL_CTL_ADD"
                       /\ {"EPOLLIN", "EPOLLET"} \subseteq c[2]
                       /\ RecvSideRegistered(c[2]))
        /\ (~ \E c \in EpollCalls : EpollCtl(Waiter, c[1], c[2], c[3])) =>
              transport'.is_edge_triggered_recv =
                 transport.is_edge_triggered_recv
      ]_vars

\* an edge-triggered registration of the receive side was recorded
EdgeTriggeredSet ==
    /\ transport.is_edge_triggered_recv
    /\ wire.epoll["recv_sock"] = {"EPOLLIN", "EPOLLET"}


\* C28: set_sndbuf and set_rcvbuf return FALSE and leave sndbuf / rcvbuf
\* unchanged whenever they fail (size <= 0, endpoint bound, size above the
\* system maximum), and return TRUE only when the size was stored
BufferSetterFailsWithFalse ==
    [][ \A name \in {"sndbuf", "rcvbuf"} : \A v \in SetterArgs(name) :
          /\ (SetterCall(Owner, name, v) /\ pc'[Owner] = "idle") =>
                /\ ret'[Owner] = [op |-> name, val |-> "FALSE"]
                /\ transport' = transport
          /\ (SetterWrite(Owner) /\ loc[Owner].op = name
                                 /\ loc[Owner].arg = v) =>
                /\ ret'[Owner] = [op |-> name, val |-> "TRUE"]
                /\ transport'[name] = v
      ]_vars


\* the list holds the endpoint once while it is created and destroy has not
\* been called for it, and is empty otherwise
RegistryExact ==
    pgm_transport_list = IF Alive /\ ~transport.is_destroyed
                         THEN << ThisTransport >> ELSE << >>

\* every update of the list is made under the writer lock of the list, and a
\* failed create makes none
RegistryUpdatesLocked ==
    /\ pgm_transport_list' # pgm_transport_list =>
          wire'.list_lock = "writer"
    /\ \A t \in Threads, fail \in CreateFailures :
          CreateFail(t, DefaultRecvAddrs, fail) =>
             pgm_transport_list' = pgm_transport_list

\* C29 as stated: the registry holds exactly the endpoints created and not yet
\* under destroy, each once; every insertion and removal is made under the
\* registry writer lock with no endpoint lock held; a failed create adds
\* nothing
RegistryUpdatesHoldNoEndpointLock ==
    [][ /\ RegistryExact'
        /\ RegistryUpdatesLocked
        /\ \A t \in Threads :
              (CreateOk(t, DefaultRecvAddrs) \/ DestroyCall(t, FALSE)) =>
                 held'[t] = << >>
      ]_vars

\* C29 (amended): the registry holds exactly the endpoints created and not yet
\* under destroy, each once; every insertion and removal is made under the
\* registry writer lock; a failed create adds nothing. Create inserts with
\* the new endpoint's send_mutex held by the creating thread; destroy removes
\* before it takes any lock, with what its caller already holds
RegistryFollowsLifecycle ==
    [][ /\ RegistryExact'
        /\ RegistryUpdatesLocked
        /\ \A t \in Threads :
              /\ CreateOk(t, DefaultRecvAddrs) =>
                    held'[t] = << "send_mutex" >>
              /\ DestroyCall(t, FALSE) =>
                    /\ held' = held
                    /\ Range(held[t]) \subseteq {"send_mutex", "window_lock"}
      ]_vars

\* the endpoint left the list with destroy under way, its creator still
\* holding the send_mutex taken by create
RemovedWithSendMutexHeld ==
    /\ Alive
    /\ transport.is_destroyed
    /\ pgm_transport_list = << >>
    /\ wire.list_lock = "writer"
    /\ Holds(Owner, "send_mutex")
    /\ ~transport.is_bound


\* net.c 66: the socket paired with the mutex of SelectMutex
PairedSock(use_router_alert) ==
    IF use_router_alert THEN "send_with_router_alert_sock" ELSE "send_sock"

\* C30: in _pgm_sendto the mutex held, the socket of both sendto attempts and
\* the socket waited on for writability are the pair selected by
\* use_router_alert; with use_router_alert none of them is the regular send
\* socket or send_mutex
SendtoKeepsToSelectedPair ==
    \A t \in Threads :
       pc[t] \in EmitterHolding =>
          /\ Holds(t, SelectMutex(loc[t].ra))
          /\ loc[t].sock = PairedSock(loc[t].ra)
          /\ loc[t].polled \in {"none", PairedSock(loc[t].ra)}
          /\ loc[t].ra =>
                /\ SelectMutex(loc[t].ra) # "send_mutex"
                /\ loc[t].sock # "send_sock"
                /\ loc[t].polled # "send_sock"


\* C31: whenever is_bound is true, can_send_data implies a transmit window
\* exists and can_recv_data implies the peer hashtable and the notification
\* channel exist, so the readiness calls never hand out an uninitialised
\* notification descriptor
BoundStructureComplete ==
    transport.is_bound =>
       /\ transport.can_send_data => transport.window
       /\ transport.can_recv_data =>
             /\ transport.peers_hashtable
             /\ transport.pending_notify
             /\ NotifyFd(transport) # "fd0"

\* C32: no assertion of bind fails after any sequence of accepted
\* configurator calls: when bind reaches the receive-only branch
\* (can_send_data false), can_recv_data is true
BindAssertionsHold ==
    \A t \in Threads :
       /\ pc[t] # "aborted"
       /\ (pc[t] = "b_finish" /\ ~transport.can_send_data) =>
             transport.can_recv_data


\* C34: for every accepted max_tpdu, and for the default, bind derives
\* max_tsdu = max_tpdu - iphdr_len - pkt_offset(FALSE) and
\* max_tsdu_fragment = max_tpdu - iphdr_len - pkt_offset(TRUE) without
\* unsigned underflow, 0 <= max_tsdu_fragment < max_tsdu < max_tpdu, and
\* max_apdu = min(PGM_MAX_FRAGMENTS, txw_sqns) * max_tsdu_fragment
DerivedSizesDoNotWrap ==
    transport.is_bound =>
       /\ transport.max_tsdu = transport.max_tpdu - transport.iphdr_len
                               - pgm_transport_pkt_offset(FALSE)
       /\ transport.max_tsdu_fragment =
             transport.max_tpdu - transport.iphdr_len
             - pgm_transport_pkt_offset(TRUE)
       /\ 0 <= transport.max_tsdu_fragment
       /\ transport.max_tsdu_fragment < transport.max_tsdu
       /\ transport.max_tsdu < transport.max_tpdu
       /\ transport.max_apdu =
             Min(PGM_MAX_FRAGMENTS, transport.txw_sqns)
             * transport.max_tsdu_fragment


\* C33: when a configurator runs concurrently with bind, the configured
\* field never changes after is_bound has become true, and the value bind
\* derived max_tsdu and the socket options from is the value stored in the
\* endpoint once bind has returned
ConfigFrozenAtBind ==
    [][ /\ transport.is_bound =>
              \A name \in CheckedSetters :
                 transport'[ConfigField(name)] = transport[ConfigField(name)]
        /\ transport'.is_bound =>
              /\ transport'.max_tsdu =
                    StoreGuint16(transport'.max_tpdu - transport'.iphdr_len
                                 - pgm_transport_pkt_offset(FALSE))
              /\ wire'.hops = transport'.hops
      ]_vars

-----------------------------------------------------------------------------
(* Specification of the receive list: create and the four membership calls *)

\* receive lists handed to create: empty, one entry, one below the limit, at
\* the limit and one above it
MembershipLists ==
    { [i \in 1..n |-> GroupSourceReq(1, "G1", "S1")] :
         n \in {0, 1, IP_MAX_MEMBERSHIPS - 1, IP_MAX_MEMBERSHIPS,
                IP_MAX_MEMBERSHIPS + 1} }

MembershipGroupReqs == { GroupReq(1, "G1"), GroupReq(2, "G2") }

MembershipSourceReqs == { GroupSourceReq(1, "G1", "S2") }

NextMembership ==
    \/ \E addrs \in MembershipLists :
          Create(Owner, DefaultInfo(addrs), "none", Htons(1))
    \/ \E gr \in MembershipGroupReqs, rc \in SockoptAnswers :
          JoinGroup(Owner, gr, rc)
    \/ \E gr \in MembershipGroupReqs, rc \in SockoptAnswers :
          LeaveGroup(Owner, gr, rc)
    \/ \E gsr \in MembershipSourceReqs, rc \in SockoptAnswers :
          \E img \in StackImages(gsr) : JoinSourceGroup(Owner, gsr, img, rc)
    \/ \E gsr \in MembershipSourceReqs, rc \in SockoptAnswers :
          LeaveSourceGroup(Owner, gsr, rc)

SpecMembership == Init /\ [][NextMembership]_vars

\* C35: in every state reached by create, join_group, join_source_group,
\* leave_group and leave_source_group the receive list of an endpoint has
\* between 1 and IP_MAX_MEMBERSHIPS entries; a join writes its entry at an
\* index below IP_MAX_MEMBERSHIPS, and no leave takes the length below one
ReceiveListBounded ==
    [][ /\ Alive' =>
              /\ 1 <= Len(recv_gsr')
              /\ Len(recv_gsr') <= IP_MAX_MEMBERSHIPS
        /\ (Alive /\ Len(recv_gsr') > Len(recv_gsr)) =>
              /\ Len(recv_gsr) < IP_MAX_MEMBERSHIPS
              /\ Len(recv_gsr') = Len(recv_gsr) + 1
        /\ (Alive /\ Len(recv_gsr') < Len(recv_gsr)) => Len(recv_gsr') >= 1
      ]_vars

\* a join was refused on a full receive list
JoinRefusedOnFullList ==
    /\ Alive
    /\ Len(recv_gsr) = IP_MAX_MEMBERSHIPS
    /\ ret[Owner].op \in {"join_group", "join_source_group"}
    /\ ret[Owner].val = "-EINVAL"

\* ---------------------------------------------------------------------------
\* C36: destroy releases the peers (the hashtable dropped, every peer of
\* peers_list unreferenced once) before it shuts down the transmit window,
\* the rate regulator and the three sockets; nothing is released twice; the
\* locks are freed only after the sockets are closed; and all of it happens
\* while the endpoint memory is still allocated: when destroy reaches the
\* release of the memory every part is gone and every lock is freed.
TeardownPeers == {"peers_hashtable", "peer1", "peer2", "peer3"}

TeardownEngines ==
    {"window", "rate_control", "recv_sock", "send_sock",
     "send_with_router_alert_sock"}

TeardownLocks ==
    {"peers_lock", "window_lock", "send_mutex",
     "send_with_router_alert_mutex", "mutex"}

ReleasedBefore(r, first, then) ==
    \A i, j \in DOMAIN r : r[i] \in first /\ r[j] \in then => i < j

-----------------------------------------------------------------------------
(* Specification of destroy against a sender and a configurator of a second
   thread, with fair scheduling *)

NextDrain ==
    \/ CreateOk(Owner, DefaultRecvAddrs)
    \/ BindCall(Owner)
    \/ BindLock(Owner)
    \/ \E f \in BindFailPoints \cup {"none"}, j \in {0}, lead0 \in FirstLead :
           BindSetup(Owner, f, j, lead0)
    \/ BindSpm(Owner)
    \/ BindSpmRet(Owner)
    \/ BindFinish(Owner)
    \/ BindUnlockSend(Owner)
    \/ BindUnlock(Owner)
    \/ SetterCall(Waiter, "max_tpdu", 1500)
    \/ SetterLock(Waiter)
    \/ SetterWrite(Waiter)
    \/ \E ra \in BOOLEAN, dw \in BOOLEAN : SendtoCall(Waiter, FALSE, ra, dw)
    \/ \E t \in Threads : SendtoLock(t)
    \/ \E t \in Threads, e \in SendErrnos : SendtoFirst(t, e)
    \/ \E t \in Threads, r \in PollAnswers : SendtoPoll(t, r)
    \/ \E t \in Threads, e \in SendErrnos : SendtoRetry(t, e)
    \/ \E t \in Threads : SendtoUnlock(t)
    \/ DestroyCall(Owner, FALSE)
    \/ DestroyRollback(Owner)
    \/ DestroyLock(Owner)
    \/ DestroyLockSend(Owner)
    \/ DestroyLockRa(Owner)
    \/ DestroyTeardown(Owner, 0)
    \/ DestroyUnlockSend(Owner)
    \/ DestroyUnlockRa(Owner)
    \/ DestroyFreeSend(Owner)
    \/ DestroyUnlock(Owner)
    \/ DestroyFree(Owner)

\* a thread inside a call is scheduled again: each step that waits for
\* nothing is taken (weak fairness), and a thread blocked in
\* g_static_mutex_lock gets the mutex if it is released again and again
\* (strong fairness)
DrainFairness ==
    /\ WF_vars(SetterWrite(Waiter))
    /\ WF_vars(\E e \in SendErrnos : SendtoFirst(Waiter, e))
    /\ WF_vars(\E r \in PollAnswers : SendtoPoll(Waiter, r))
    /\ WF_vars(\E e \in SendErrnos : SendtoRetry(Waiter, e))
    /\ WF_vars(SendtoUnlock(Waiter))
    /\ WF_vars(DestroyRollback(Owner))
    /\ SF_vars(DestroyLock(Owner))
    /\ SF_vars(DestroyLockSend(Owner))
    /\ SF_vars(DestroyLockRa(Owner))
    /\ WF_vars(DestroyTeardown(Owner, 0))
    /\ WF_vars(DestroyUnlockSend(Owner))
    /\ WF_vars(DestroyUnlockRa(Owner))
    /\ WF_vars(DestroyFreeSend(Owner))
    /\ WF_vars(DestroyUnlock(Owner))
    /\ WF_vars(DestroyFree(Owner))

SpecDrain == Init /\ [][NextDrain]_vars /\ DrainFairness

PacketsOf(w) == << w.spm, w.data, w.apdu, w.on_closed >>

-----------------------------------------------------------------------------
(* _pgm_set_nonblocking (net.c) *)

\* <fcntl.h>: the access mode and the file status flags of a pipe end, with
\* the bit each one has in the word F_GETFL returns
FlagBit ==
    [O_WRONLY |-> 1, O_NONBLOCK |-> 2048, O_ASYNC |-> 8192,
     O_DIRECT |-> 16384]

FlagNames == DOMAIN FlagBit

\* fcntl(2): F_SETFL changes the file status flags only, never the access mode
StatusFlags == FlagNames \ {"O_WRONLY"}

RECURSIVE FlagWord(_)
\* the int that holds the flags fs
FlagWord(fs) ==
    IF fs = {} THEN 0
    ELSE LET f == CHOOSE x \in fs : TRUE
         IN  FlagBit[f] + FlagWord(fs \ {f})

\* the flags set in the int w
FlagSet(w) == { f \in FlagNames : (w \div FlagBit[f]) % 2 = 1 }

\* fd_flags | O_NONBLOCK
OrNonblock(w) == FlagWord(FlagSet(w) \cup {"O_NONBLOCK"})

\* fcntl (fd, F_SETFL, w) on a descriptor whose flags are fs
SetFl(fs, w) == (fs \ StatusFlags) \cup (FlagSet(w) \cap StatusFlags)

\* the four fcntl calls of _pgm_set_nonblocking, in program order
FcntlCalls == {"getfl1", "setfl1", "getfl0", "setfl0"}

\* net.c 139-171 on the pipe fds, where the fcntl calls in `failing` return
\* -1 when they are made: the value returned, the flags of both ends
\* afterwards, whether both F_SETFL calls were made and succeeded, and the
\* calls that were made and failed
_pgm_set_nonblocking(fds, failing) ==
    LET fd_flags == IF "getfl1" \in failing THEN -1 ELSE FlagWord(fds[1])
        \* 147-156: the write end
        wrote1 == fd_flags >= 0 /\ "setfl1" \notin failing
        fds1 == IF wrote1
                THEN [fds EXCEPT ![1] = SetFl(@, OrNonblock(fd_flags))]
                ELSE fds
        \* 157-167: the value of fcntl (filedes[0], F_GETFL) is dropped and
        \* fd_flags still holds the flags of the write end
        wrote0 == wrote1 /\ "setfl0" \notin failing
        fds0 == IF wrote0
                THEN [fds1 EXCEPT ![0] = SetFl(@, OrNonblock(fd_flags))]
                ELSE fds1
    IN  [retval |-> IF wrote0 THEN 0 ELSE fd_flags,
         filedes |-> fds0,
         both_set |-> wrote0,
         failed |-> IF fd_flags < 0 THEN {"getfl1"}
                    ELSE IF ~wrote1 THEN {"setfl1"}
                    ELSE failing \cap {"getfl0", "setfl0"}]

\* one call of _pgm_set_nonblocking by thread t
SetNonblocking(t, failing) ==
    /\ pc[t] = "idle"
    /\ filedes' = _pgm_set_nonblocking(filedes, failing).filedes
    /\ ret' = [ret EXCEPT ![t] =
                 [op |-> "set_nonblocking",
                  val |-> _pgm_set_nonblocking(filedes, failing).retval]]
    /\ wire' = [wire EXCEPT
                 !.fcntl_failed =
                     _pgm_set_nonblocking(filedes, failing).failed,
                 !.both_set =
                     _pgm_set_nonblocking(filedes, failing).both_set]
    /\ UNCHANGED << transport, mem, handle, pgm_transport_list, lock_state,
                    held, sock_state, recv_joined, txw_lead, recv_gsr,
                    sockopt, pc, loc, binds >>

\* the pipes handed to _pgm_set_nonblocking: a pipe whose ends the caller
\* has given any file status flags
InitPipe ==
    /\ transport = ZeroTransport
    /\ mem = "none"
    /\ handle = FALSE
    /\ pgm_transport_list = << >>
    /\ lock_state = [l \in LockNames |-> "uninit"]
    /\ held = [t \in Threads |-> << >>]
    /\ sock_state = [s \in SockNames |-> "none"]
    /\ recv_joined = 0
    /\ txw_lead = [hi |-> 0, lo |-> 0]
    /\ recv_gsr = << >>
    /\ sockopt = [name |-> "none", rc |-> 0, n |-> 0]
    /\ pc = [t \in Threads |-> "idle"]
    /\ loc = [t \in Threads |-> NoLoc]
    /\ ret = [t \in Threads |-> NoRet]
    /\ wire = NoHistory
    /\ binds = 0
    /\ \E r \in SUBSET StatusFlags, w \in SUBSET StatusFlags :
           filedes = [i \in {0, 1} |-> IF i = 1 THEN w \cup {"O_WRONLY"}
                                       ELSE r]

NextPipe ==
    \E failing \in SUBSET FcntlCalls : SetNonblocking(Owner, failing)

SpecPipe == InitPipe /\ [][NextPipe]_vars

\* ---------------------------------------------------------------------------
\* C39: _pgm_set_nonblocking sets O_NONBLOCK on the two pipe ends
\* independently: each end is written its own flags plus O_NONBLOCK, so a
\* call changes no flag of either end other than O_NONBLOCK.
NonblockingKeepsOtherFlags ==
    [][\A i \in {0, 1} :
          filedes'[i] \ {"O_NONBLOCK"} = filedes[i] \ {"O_NONBLOCK"}]_vars

\* ---------------------------------------------------------------------------
\* C40: _pgm_set_nonblocking returns 0 exactly when both pipe ends were set
\* non-blocking, and -1 whenever one of the fcntl calls it made failed.
NonblockingReturnTellsOutcome ==
    ret[Owner].op = "set_nonblocking" =>
        /\ ret[Owner].val = 0 <=> wire.both_set
        /\ wire.both_set => \A i \in {0, 1} : "O_NONBLOCK" \in filedes[i]
        /\ wire.fcntl_failed # {} => ret[Owner].val = -1

=============================================================================
